---- MODULE Spec2Model ----
(***************************************************************************)
(* GeoGov Lite decision pipeline: rules engine, decision merge and the     *)
(* evidence ledger (src/main.py, src/brians_poc/backend/main.py).          *)
(*                                                                         *)
(* Text is modelled at word level: a text is a sequence of words, a term   *)
(* is a sequence of words, "term in text" is contiguous containment and    *)
(* str.lower() maps each word to its lower-case form.                      *)
(* An optional value (a dict key that may be missing, an Optional field)   *)
(* is a sequence of length 0 (missing / None) or 1 (present).              *)
(***************************************************************************)
EXTENDS Integers, Sequences, FiniteSets, TLC

VARIABLES
  impl,              \* "main": src/main.py, "backend": src/brians_poc/backend/main.py
  settings,          \* the global Settings object
  rules,             \* RulesEngine.rules, loaded once
  artifact,          \* the FeatureArtifact under analysis
  pc,                \* position of the analyze() call
  sigs,              \* SignalSet of the artifact
  finder_out, counter_out, judge_out,
  use_llm_decision,  \* local of analyze()
  verdict,           \* optional Verdict returned by RulesEngine.evaluate
  decision,          \* the Decision object built by analyze()
  ledger,            \* lines of data/receipts.jsonl
  ret,               \* optional Decision returned to the caller
  inbox,             \* Decision objects handed to write_receipt one after the other
  committed,         \* the Decision objects write_receipt has returned from
  requests,          \* the requests the server is handling, each with its position
  receipts_file,     \* optional content of data/receipts.jsonl, as written chunks
  outputs_csv,       \* optional content of data/outputs.csv
  archive,           \* optional members of the last archive make_evidence_zip built
  hashes,            \* argument of a merkle_root call
  root,              \* optional result of that call
  policy_doc,        \* the file rules.yaml as yaml.safe_load sees it
  rules_type,        \* type of the value _load_rules returned
  raw_response,      \* the text handed to a response parser, as lines
  parse_result,      \* optional result of the parser
  calls,             \* per stage, what its call of the model has done so far
  features,          \* the argument of AnalysisRunner.run_batch_analysis
  runner             \* the AnalysisRunner: its position, its locals and self.results

server_vars == <<requests, receipts_file, outputs_csv, archive>>
merkle_vars == <<hashes, root>>
policy_vars == <<policy_doc, rules_type>>
parser_vars == <<raw_response, parse_result>>
call_vars == <<calls>>
runner_vars == <<features, runner>>

\* the state outside one analyze() call
others == <<server_vars, merkle_vars, policy_vars, parser_vars, call_vars, runner_vars>>

vars == <<impl, settings, rules, artifact, pc, sigs, finder_out, counter_out,
          judge_out, use_llm_decision, verdict, decision, ledger, ret,
          inbox, committed, others>>

(* ---------------- bounds ---------------- *)
MaxRules == 2
MaxClaims == 2
MaxRequests == 2
MaxHashes == 4
MaxLines == 3
MaxCalls == 3
MaxFeatures == 2

(* ---------------- optional values ---------------- *)
None == <<>>
Some(v) == <<v>>
Has(o) == Len(o) = 1
Val(o) == o[1]

Range(s) == {s[i] : i \in 1..Len(s)}

(* ---------------- text ---------------- *)
LowerWord(w) ==
  CASE w = "Under" -> "under"
    [] w = "ADVERTISING" -> "advertising"
    [] OTHER -> w

Lower(t) == [i \in 1..Len(t) |-> LowerWord(t[i])]

\* Python's "a in b" on strings, at word level
Contains(text, term) ==
  \E k \in 0..(Len(text) - Len(term)) :
     \A j \in 1..Len(term) : text[k + j] = term[j]

\* f"{artifact.title} {artifact.description}"
RuleText(a) == a.title \o a.description

(* ---------------- SignalExtractor ---------------- *)
\* self.patterns: topic -> the alternatives of its regular expression that
\* the words of the model can spell
Patterns ==
  [ personalization |-> { <<"feed">>, <<"ranking">> },
    minors          |-> { <<"under", "18">>, <<"teen">> },
    moderation      |-> { <<"takedown">> },
    geo_eu          |-> { <<"eu">> },
    geo_us          |-> { <<"us">> },
    safety          |-> { <<"safety">> },
    ads             |-> { <<"advertising">>, <<"marketing">> } ]

ExtractText(a) == a.title \o a.description \o a.code_hints

\* an extractor whose SignalSet objects share their default sets: the result
\* of a call holds what the calls before it added
ExtractSignalsShared(a) ==
  [ tags |-> sigs.tags \cup Range(a.tags),
    text_signals |-> sigs.text_signals \cup
                       { t \in DOMAIN Patterns :
                           \E alt \in Patterns[t] : Contains(Lower(ExtractText(a)), alt) },
    hints |-> a.code_hints ]

\* signals = SignalSet(), a fresh object with its own empty sets, then filled
ExtractSignals(a) ==
  [ tags |-> Range(a.tags),
    text_signals |-> { t \in DOMAIN Patterns :
                         \E alt \in Patterns[t] : Contains(Lower(ExtractText(a)), alt) },
    hints |-> a.code_hints ]

\* SignalSet.to_list: the members of tags | text_signals
ToList(ss) == ss.tags \cup ss.text_signals

\* list(set(...)): every element once, in an order the program does not fix
Orderings(S) ==
  { f \in [1..Cardinality(S) -> S] : \A i, j \in 1..Cardinality(S) : f[i] = f[j] => i = j }

(* ---------------- RulesEngine ---------------- *)
TextContains(text, terms) ==
  \E i \in 1..Len(terms) : Contains(Lower(text), Lower(terms[i]))

CheckTags(tags, required_tags) ==
  \E i \in 1..Len(required_tags) : required_tags[i] \in tags

WhenAnyMatch(rule, tags, text) ==
  \/ /\ Has(rule.when_any)
     /\ \/ /\ Has(Val(rule.when_any).tags)
           /\ CheckTags(tags, Val(Val(rule.when_any).tags))
        \/ /\ Has(Val(rule.when_any).text)
           /\ TextContains(text, Val(Val(rule.when_any).text))
  \/ /\ Has(rule.when_any_text)
     /\ TextContains(text, Val(rule.when_any_text))

AllOf(text, key) ==
  Has(key) => \A i \in 1..Len(Val(key)) : TextContains(text, <<Val(key)[i]>>)

\* the rule condition with the all-of lists read as any-of lists
RuleMatchesAnyOfAll(rule, tags, text) ==
  /\ \/ WhenAnyMatch(rule, tags, text)
     \/ (~Has(rule.when_any) /\ ~Has(rule.when_any_text))
  /\ (Has(rule.when_all_text) => TextContains(text, Val(rule.when_all_text)))
  /\ (Has(rule.and_text) => TextContains(text, Val(rule.and_text)))

RuleMatches(rule, tags, text) ==
  /\ \/ WhenAnyMatch(rule, tags, text)
     \/ (~Has(rule.when_any) /\ ~Has(rule.when_any_text))
  /\ AllOf(text, rule.when_all_text)
  /\ AllOf(text, rule.and_text)

RuleVerdict(rule) == IF Has(rule.verdict) THEN Val(rule.verdict) ELSE FALSE

RuleRegulations(rule) == IF Has(rule.regulations) THEN Val(rule.regulations) ELSE <<>>

\* f"Rule {rule_id} triggered"
DefaultReason(rule_id) ==
  CASE rule_id = "A" -> "Rule A triggered"
    [] rule_id = "B" -> "Rule B triggered"
    [] rule_id = "C" -> "Rule C triggered"
    [] OTHER -> "Rule  triggered"

RuleReason(rule) == IF Has(rule.reason) THEN Val(rule.reason) ELSE DefaultReason(rule.id)

NoMatchReason == "No compliance requirements detected"

RECURSIVE EvaluateFrom(_, _, _, _, _)
EvaluateFrom(rs, i, matched_rules, tags, text) ==
  IF i > Len(rs)
  THEN [ok |-> FALSE, matched_ids |-> matched_rules,
        regulations |-> <<>>, reason |-> NoMatchReason]
  ELSE IF RuleMatches(rs[i], tags, text)
       THEN IF RuleVerdict(rs[i])
            THEN [ok |-> TRUE, matched_ids |-> <<rs[i].id>>,
                  regulations |-> RuleRegulations(rs[i]),
                  reason |-> RuleReason(rs[i])]
            ELSE EvaluateFrom(rs, i + 1, Append(matched_rules, rs[i].id), tags, text)
       ELSE EvaluateFrom(rs, i + 1, matched_rules, tags, text)

\* evaluate without the early return: a later deciding rule overrides an earlier one
RECURSIVE EvaluateNoReturnFrom(_, _, _, _, _)
EvaluateNoReturnFrom(rs, i, found, tags, text) ==
  IF i > Len(rs)
  THEN found
  ELSE IF RuleMatches(rs[i], tags, text)
       THEN IF RuleVerdict(rs[i])
            THEN EvaluateNoReturnFrom(rs, i + 1,
                   [ok |-> TRUE, matched_ids |-> <<rs[i].id>>,
                    regulations |-> RuleRegulations(rs[i]),
                    reason |-> RuleReason(rs[i])], tags, text)
            ELSE EvaluateNoReturnFrom(rs, i + 1,
                   IF found.ok THEN found
                   ELSE [found EXCEPT !.matched_ids = Append(found.matched_ids, rs[i].id)],
                   tags, text)
       ELSE EvaluateNoReturnFrom(rs, i + 1, found, tags, text)

EvaluateNoReturn(rs, tags, text) ==
  EvaluateNoReturnFrom(rs, 1, [ok |-> FALSE, matched_ids |-> <<>>,
                               regulations |-> <<>>, reason |-> NoMatchReason], tags, text)

\* evaluate that forgets the rules it matched when none of them decides
EvaluateForgetful(rs, tags, text) ==
  LET v == EvaluateFrom(rs, 1, <<>>, tags, text)
  IN IF v.ok THEN v ELSE [v EXCEPT !.matched_ids = <<>>]

Evaluate(rs, tags, text) == EvaluateFrom(rs, 1, <<>>, tags, text)

(* ---------------- inputs of the rules engine ---------------- *)
RuleIds == <<"A", "B", "C">>

\* the condition kinds a rule of the policy document may list
AnyTagsCond == <<"minors", "teens">>
AnyTextCond == << <<"ADVERTISING">>, <<"eu">> >>
AllTextCond == << <<"under">>, <<"18">> >>
AndTextCond == << <<"under", "18">> >>

\* when_any absent, with tags only, or with tags and text; a rule with text
\* substrings only is the when_any_text shape below
WhenAnyShapes ==
  { None,
    Some([tags |-> Some(AnyTagsCond), text |-> None]),
    Some([tags |-> Some(AnyTagsCond), text |-> Some(AnyTextCond)]) }

RuleShapes ==
  [ when_any : WhenAnyShapes,
    when_any_text : {None, Some(AnyTextCond)},
    when_all_text : {None, Some(AllTextCond)},
    and_text : {None, Some(AndTextCond)},
    verdict : {Some(TRUE), Some(FALSE)} ]

RegulationsOf(rule_id) ==
  CASE rule_id = "A" -> Some(<<"COPPA">>)
    [] rule_id = "B" -> Some(<<"GDPR", "DSA">>)
    [] OTHER -> None

ReasonOf(rule_id) ==
  CASE rule_id = "A" -> Some("Minors protection applies")
    [] OTHER -> None

\* a rule record of the policy document: the shape plus id, regulations, reason
MkRule(shape, rule_id) ==
  [ id |-> rule_id,
    verdict |-> shape.verdict,
    when_any |-> shape.when_any,
    when_any_text |-> shape.when_any_text,
    when_all_text |-> shape.when_all_text,
    and_text |-> shape.and_text,
    regulations |-> RegulationsOf(rule_id),
    reason |-> ReasonOf(rule_id) ]

\* the policy document whose i-th rule has the shape f[i]
RuleDoc(f, k) == [i \in 1..k |-> MkRule(f[i], RuleIds[i])]

Titles == { <<>>, <<"Under">> }
Descriptions == { <<"18">>, <<"advertising">> }
TagLists == { <<>>, <<"minors">> }

\* descriptions for the rules engine: with "Under" in front the text holds
\* the all-of terms, with "advertising" behind it holds an any-of term
RuleDescriptions == { <<"18">>, <<"18", "advertising">> }

Artifacts ==
  [ feature_id : {"F1"}, title : Titles, description : RuleDescriptions,
    code_hints : {<<>>}, tags : TagLists ]

(* ---------------- LLM ensemble: finder, counter, judge ---------------- *)
Get(o, default) == IF Has(o) THEN Val(o) ELSE default

Take(s, n) == [i \in 1..(IF Len(s) < n THEN Len(s) ELSE n) |-> s[i]]

EmptyFinderOut == [signals |-> <<>>, claims |-> <<>>, citations |-> <<>>]
EmptyCounterOut == [counter_points |-> <<>>, missing_signals |-> <<>>, citations |-> <<>>]
NoJudgeOut == [signals |-> <<>>, notes |-> "", confidence |-> "0.0", llm_decision |-> None]

\* what one external model call can come back with: the call fails on every
\* attempt ("fail"), or it returns an empty text, a text that is no JSON
\* object ("text"), or a JSON object ("json"); the optional fields are what
\* the stage's parser finds in the text
ResponseKinds == {"fail", "empty", "text", "json"}

ClaimKinds == { [regulation |-> Some("GDPR")], [regulation |-> Some("COPPA")],
                [regulation |-> None] }

\* LLMClient.finder; None when the call raises out of finder
Finder(im, use_rag, resp) ==
  IF im = "main"
  THEN IF resp.kind = "json"
       THEN Some([signals |-> Get(resp.signals, <<>>),
                  claims |-> Get(resp.claims, <<>>),
                  citations |-> Get(resp.citations, <<>>)])
       ELSE Some(EmptyFinderOut)
  ELSE IF use_rag
       THEN IF resp.kind \in {"fail", "empty"}
            THEN Some(EmptyFinderOut)
            ELSE Some([signals |-> Get(resp.signals, <<>>),
                       claims |-> Get(resp.claims, <<>>),
                       citations |-> Get(resp.citations, <<>>)])
       ELSE IF resp.kind = "fail"
            THEN None
            ELSE IF resp.kind = "empty"
                 THEN Some(EmptyFinderOut)
                 ELSE Some([signals |-> Get(resp.signals, <<>>),
                            claims |-> Get(resp.claims, <<>>),
                            citations |-> Get(resp.citations, <<>>)])

\* LLMClient.counter; None when the call raises out of counter
Counter(im, use_rag, resp) ==
  IF im = "backend" /\ ~use_rag /\ resp.kind = "fail"
  THEN None
  ELSE IF resp.kind = "json" \/ (im = "backend" /\ resp.kind = "text")
       THEN Some([counter_points |-> Get(resp.counter_points, <<>>),
                  missing_signals |-> Get(resp.missing_signals, <<>>),
                  citations |-> <<>>])
       ELSE Some(EmptyCounterOut)

\* SimplifiedRAGSystem.compliance_judge: the dict handed back to judge
ComplianceJudge(resp, all_signals) ==
  IF resp.kind = "fail"
  THEN [signals |-> Some(all_signals),
        notes |-> Some("Judge analysis timed out - please try again"),
        confidence |-> Some("0.0"), requires_compliance |-> None]
  ELSE LET parsed ==
             IF resp.kind = "json"
             THEN [signals |-> resp.signals, notes |-> resp.notes,
                   confidence |-> resp.confidence,
                   requires_compliance |-> resp.requires_compliance]
             ELSE [signals |-> Some(<<>>),
                   notes |-> Some(IF resp.kind = "empty" THEN "" ELSE "raw text"),
                   confidence |-> Some(Get(resp.confidence, "0.7")),
                   requires_compliance |-> resp.requires_compliance]
       IN [signals |-> IF ~Has(parsed.signals) \/ Val(parsed.signals) = <<>>
                       THEN Some(all_signals) ELSE parsed.signals,
           notes |-> Some(Get(parsed.notes, "Analysis completed")),
           confidence |-> Some(Get(parsed.confidence, "0.5")),
           requires_compliance |-> parsed.requires_compliance]

\* _parse_judge_response as it would be with signals handed to JudgeOut: the
\* CONFIDENCE, DECISION and REASON lines of the text
ParseJudgeResponseComplete(resp, make_decision) ==
  Some([notes |-> Get(resp.notes, "raw text"),
        confidence |-> Get(resp.confidence, "0.5"),
        llm_decision |-> IF make_decision THEN resp.requires_compliance ELSE None])

\* LLMClient._parse_judge_response: it builds JudgeOut without the required
\* field signals, so the constructor raises on every text; None is that raise
ParseJudgeResponse(resp, make_decision) == None

\* the decision copied whenever the result carries one
LlmDecisionUnguarded(make_decision, requires_compliance) == requires_compliance

\* if make_decision and "requires_compliance" in result: judge_out.llm_decision = ...
LlmDecision(make_decision, requires_compliance) ==
  IF make_decision /\ Has(requires_compliance) THEN requires_compliance ELSE None

\* LLMClient.judge; None when the call raises out of judge
Judge(im, use_rag, resp, make_decision, all_signals) ==
  IF im = "main"
  THEN IF resp.kind = "json"
       THEN Some([signals |-> Get(resp.signals, all_signals),
                  notes |-> Get(resp.notes, "Analysis completed"),
                  confidence |-> Get(resp.confidence, "0.5"),
                  llm_decision |-> LlmDecision(make_decision, resp.requires_compliance)])
       ELSE Some([signals |-> all_signals,
                  notes |-> CASE resp.kind = "empty" -> "Empty response from LLM"
                              [] resp.kind = "text" -> "JSON decode failed"
                              [] OTHER -> "LLM analysis failed",
                  confidence |-> "0.0",
                  llm_decision |-> None])
  ELSE IF use_rag
       THEN LET result == ComplianceJudge(resp, all_signals)
            IN Some([signals |-> Get(result.signals, all_signals),
                     notes |-> Get(result.notes, "RAG analysis completed"),
                     confidence |-> Get(result.confidence, "0.5"),
                     llm_decision |-> LlmDecision(make_decision, result.requires_compliance)])
       ELSE IF resp.kind = "fail"
            THEN None
            ELSE LET parsed == ParseJudgeResponse(resp, make_decision)
                 IN IF Has(parsed)
                    THEN Some([signals |-> all_signals,
                               notes |-> Val(parsed).notes,
                               confidence |-> Val(parsed).confidence,
                               llm_decision |-> IF make_decision
                                                THEN Val(parsed).llm_decision ELSE None])
                    ELSE Some([signals |-> all_signals,
                               notes |-> "Analysis completed",
                               confidence |-> "0.5",
                               llm_decision |-> IF make_decision THEN Some(FALSE) ELSE None])

(* ---------------- decision merge (analyze) ---------------- *)
PolicyVersion == "v0.1.0"

\* the matched_rules sentinel of an LLM decision
Sentinel(im) == IF im = "main" THEN "LLM_DECISION" ELSE "SIMPLIFIED_RAG_DECISION"

\* RAGSystem.chunks as index_documents leaves it
RagChunks == << [id |-> "legal_doc_0", source |-> "https://law.example/0", content |-> "text 0"] >>

RECURSIVE HydrateCitations(_, _)
HydrateCitations(chunk_ids, chunks) ==
  IF chunk_ids = <<>> /\ chunks # <<>>
  THEN << [source |-> chunks[1].source, snippet |-> chunks[1].content] >>
  ELSE IF chunk_ids = <<>>
       THEN <<>>
       ELSE LET hits == { i \in 1..Len(chunks) : chunks[i].id = Head(chunk_ids) }
                first == CHOOSE i \in hits : \A j \in hits : i <= j
            IN (IF hits = {} THEN <<>>
                ELSE << [source |-> chunks[first].source, snippet |-> chunks[first].content] >>)
               \o (IF Tail(chunk_ids) = <<>> THEN <<>>
                   ELSE HydrateCitations(Tail(chunk_ids), chunks))

Citations(im, refs) ==
  IF im = "main"
  THEN HydrateCitations(Take(refs, 3), RagChunks)
  ELSE [i \in 1..Len(Take(refs, 3)) |->
          [source |-> refs[i], snippet |-> "RAG retrieved document"]]

\* for claim in finder_out.claims: if "regulation" in claim: regulations.append(...)
RECURSIVE ClaimRegulations(_)
ClaimRegulations(claims) ==
  IF claims = <<>> THEN <<>>
  ELSE (IF Has(Head(claims).regulation) THEN <<Val(Head(claims).regulation)>> ELSE <<>>)
       \o ClaimRegulations(Tail(claims))

\* a merge that reads the policy toggle the wrong way round
MergeToggleInverted(im, llm_decides, jo, fo, rs, ss, text) ==
  LET vd == Evaluate(rs, ss.tags, text)
  IN IF ~llm_decides
     THEN [needs_compliance |-> IF Has(jo.llm_decision) THEN Val(jo.llm_decision) ELSE FALSE,
           reasoning |-> jo.notes,
           regulations |-> ClaimRegulations(fo.claims),
           matched_rules |-> <<Sentinel(im)>>,
           verdict |-> Some(vd)]
     ELSE [needs_compliance |-> vd.ok,
           reasoning |-> vd.reason,
           regulations |-> vd.regulations,
           matched_rules |-> vd.matched_ids,
           verdict |-> None]

\* a merge in which the rules engine can raise the arbiter's answer
MergeRulesLeak(im, llm_decides, jo, fo, rs, ss, text) ==
  LET vd == Evaluate(rs, ss.tags, text)
  IN IF llm_decides
     THEN [needs_compliance |->
             (IF Has(jo.llm_decision) THEN Val(jo.llm_decision) ELSE FALSE) \/ vd.ok,
           reasoning |-> jo.notes,
           regulations |-> ClaimRegulations(fo.claims),
           matched_rules |-> <<Sentinel(im)>>,
           verdict |-> None]
     ELSE [needs_compliance |-> vd.ok,
           reasoning |-> vd.reason,
           regulations |-> vd.regulations,
           matched_rules |-> vd.matched_ids,
           verdict |-> Some(vd)]

\* the four merged fields, by policy
Merge(im, llm_decides, jo, fo, rs, ss, text) ==
  IF llm_decides
  THEN [needs_compliance |-> IF Has(jo.llm_decision) THEN Val(jo.llm_decision) ELSE FALSE,
        reasoning |-> jo.notes,
        regulations |-> ClaimRegulations(fo.claims),
        matched_rules |-> <<Sentinel(im)>>,
        verdict |-> None]
  ELSE LET vd == Evaluate(rs, ss.tags, text)
       IN [needs_compliance |-> vd.ok,
           reasoning |-> vd.reason,
           regulations |-> vd.regulations,
           matched_rules |-> vd.matched_ids,
           verdict |-> Some(vd)]

\* the signal list built without the arbiter's signals
FinalSignalsExtractorOnly(ss, jo) == Orderings(ToList(ss))

\* all_signals = list(set(sigs.to_list() + judge_out.signals)): the lists it can be
FinalSignals(ss, jo) == Orderings(ToList(ss) \cup Range(jo.signals))

NoDecision ==
  [ feature_id |-> "", needs_geo_compliance |-> FALSE, reasoning |-> "",
    regulations |-> <<>>, signals |-> <<>>, citations |-> <<>>,
    confidence |-> "0.0", matched_rules |-> <<>>, hash |-> <<>>,
    ts |-> "", policy_version |-> "" ]

(* ---------------- EvidenceSystem ---------------- *)
\* orjson writes a float as its shortest decimal text, and a float that is
\* not finite, like None, as null
NonFinite == {"Infinity", "-Infinity", "NaN"}
OrjsonFloat(c) == IF c \in NonFinite \/ c = "None" THEN "null" ELSE c

\* orjson.loads of a number or null
LoadsFloat(j) == IF j = "null" THEN "None" ELSE j

\* orjson.dumps(canonical_dict, option=orjson.OPT_SORT_KEYS) of the Decision
\* without its hash: the members in key order
CanonicalJson(d) ==
  << <<"citations", d.citations>>,
     <<"confidence", OrjsonFloat(d.confidence)>>,
     <<"feature_id", d.feature_id>>,
     <<"matched_rules", d.matched_rules>>,
     <<"needs_geo_compliance", d.needs_geo_compliance>>,
     <<"policy_version", d.policy_version>>,
     <<"reasoning", d.reasoning>>,
     <<"regulations", d.regulations>>,
     <<"signals", d.signals>>,
     <<"ts", d.ts>> >>

\* hashlib.sha256(...).hexdigest(), taken as collision-free
ComputeSha256(data) == <<"sha256", data>>

ReceiptHash(d) == <<"sha256-", ComputeSha256(CanonicalJson(d))>>

\* write_receipt up to decision.hash = f"sha256-{hash_value}": the Decision it leaves
WriteReceipt(d) == [d EXCEPT !.hash = ReceiptHash(d)]

\* the line written before the hash is stored in the Decision
ReceiptLineUnhashed(d) ==
  << <<"feature_id", d.feature_id>>,
     <<"needs_geo_compliance", d.needs_geo_compliance>>,
     <<"reasoning", d.reasoning>>,
     <<"regulations", d.regulations>>,
     <<"signals", d.signals>>,
     <<"citations", d.citations>>,
     <<"confidence", OrjsonFloat(d.confidence)>>,
     <<"matched_rules", d.matched_rules>>,
     <<"hash", <<>> >>,
     <<"ts", d.ts>>,
     <<"policy_version", d.policy_version>> >>

\* orjson.dumps(decision.model_dump()): the members in field order
ReceiptLine(d) ==
  << <<"feature_id", d.feature_id>>,
     <<"needs_geo_compliance", d.needs_geo_compliance>>,
     <<"reasoning", d.reasoning>>,
     <<"regulations", d.regulations>>,
     <<"signals", d.signals>>,
     <<"citations", d.citations>>,
     <<"confidence", OrjsonFloat(d.confidence)>>,
     <<"matched_rules", d.matched_rules>>,
     <<"hash", d.hash>>,
     <<"ts", d.ts>>,
     <<"policy_version", d.policy_version>> >>

\* orjson.loads of a ledger line
LoadsLine(line) ==
  [ feature_id |-> line[1][2], needs_geo_compliance |-> line[2][2],
    reasoning |-> line[3][2], regulations |-> line[4][2], signals |-> line[5][2],
    citations |-> line[6][2], confidence |-> LoadsFloat(line[7][2]),
    matched_rules |-> line[8][2], hash |-> line[9][2], ts |-> line[10][2],
    policy_version |-> line[11][2] ]

(* ---------------- inputs of one analysis ---------------- *)
Timestamps == {"2025-08-30T10:00:00+00:00", "2025-08-30T10:00:01+00:00"}

PipelineArtifacts ==
  [ feature_id : {"F1"}, title : {<<"Under">>}, description : Descriptions,
    code_hints : {<<>>}, tags : TagLists ]

\* a tag rule that decides and a text rule that only reports
PipelineShapes ==
  { [when_any |-> Some([tags |-> Some(AnyTagsCond), text |-> None]),
     when_any_text |-> None, when_all_text |-> None, and_text |-> None,
     verdict |-> Some(TRUE)],
    [when_any |-> None, when_any_text |-> Some(AnyTextCond),
     when_all_text |-> None, and_text |-> None, verdict |-> Some(FALSE)] }

ClaimLists == UNION { [1..n -> ClaimKinds] : n \in 0..MaxClaims }

FinderResponses ==
  { [kind |-> k, signals |-> None, claims |-> None, citations |-> None] :
      k \in {"fail", "empty"} }
  \cup
  { [kind |-> k, signals |-> Some(<<"privacy">>), claims |-> Some(cl),
     citations |-> Some(<<"legal_doc_0", "legal_doc_9">>)] :
      k \in {"text", "json"}, cl \in ClaimLists }
  \cup
  { [kind |-> "json", signals |-> None, claims |-> None, citations |-> None] }

CounterResponses ==
  { [kind |-> k, counter_points |-> None, missing_signals |-> None] :
      k \in {"fail", "empty"} }
  \cup
  { [kind |-> k, counter_points |-> Some(<<"internal tool">>),
     missing_signals |-> Some(<<"minors">>)] : k \in {"text", "json"} }

JudgeResponses ==
  { [kind |-> k, signals |-> None, notes |-> None, confidence |-> None,
     requires_compliance |-> None] : k \in {"fail", "empty", "json"} }
  \cup
  { [kind |-> "text", signals |-> None, notes |-> None, confidence |-> c,
     requires_compliance |-> r] :
      c \in {None, Some("0.9")}, r \in {None, Some(TRUE)} }
  \cup
  { [kind |-> "json", signals |-> Some(<<"ads", "ads">>), notes |-> Some("arbiter notes"),
     confidence |-> Some(c), requires_compliance |-> r] :
      c \in {"0.81", "Infinity"}, r \in {Some(TRUE), Some(FALSE)} }

\* no request in flight and no file written
IdleServer ==
  /\ requests = <<>>
  /\ receipts_file = None
  /\ outputs_csv = None
  /\ archive = None

\* no merkle_root call
IdleMerkle == hashes = <<>> /\ root = None

\* the rules are held as the list in the variable rules
IdlePolicy == policy_doc = [kind |-> "mapping", rules_key |-> None] /\ rules_type = "list"

\* no parser call
IdleParser == raw_response = <<>> /\ parse_result = None

\* the three stages and the record of a call that has not started
Stages == {"finder", "counter", "judge"}

NoCall == [via |-> "none", attempts |-> 0, last |-> "none", outcome |-> "none",
           content |-> None]

\* no stage has called the model
IdleCalls == calls = [s \in Stages |-> NoCall]

\* no batch handed to an AnalysisRunner
IdleRunner ==
  /\ features = <<>>
  /\ runner = [pc |-> "idle", k |-> 1, decisions |-> <<>>, results |-> <<>>, csv |-> None]

IdleOthers ==
  IdleServer /\ IdleMerkle /\ IdlePolicy /\ IdleParser /\ IdleCalls /\ IdleRunner

(* ---------------- one analyze() call ---------------- *)
Init ==
  /\ impl \in {"main", "backend"}
  /\ settings \in [use_rules_engine : BOOLEAN, use_rag : BOOLEAN]
  /\ impl = "main" => settings.use_rag
  /\ \E k \in 0..MaxRules : \E f \in [1..k -> PipelineShapes] : rules = RuleDoc(f, k)
  /\ artifact \in PipelineArtifacts
  /\ pc = "start"
  /\ sigs = [tags |-> {}, text_signals |-> {}, hints |-> <<>>]
  /\ finder_out = EmptyFinderOut
  /\ counter_out = EmptyCounterOut
  /\ judge_out = NoJudgeOut
  /\ use_llm_decision = FALSE
  /\ verdict = None
  /\ decision = NoDecision
  /\ ledger = <<>>
  /\ ret = None
  /\ inbox = <<>>
  /\ committed = <<>>
  /\ IdleOthers

\* analyze: signal extraction (and the retrieval of context)
AnalyzeStart ==
  /\ pc = "start"
  /\ sigs' = ExtractSignals(artifact)
  /\ pc' = "finder"
  /\ UNCHANGED <<others, impl, settings, rules, artifact, finder_out, counter_out, judge_out,
                 use_llm_decision, verdict, decision, ledger, ret,
                 inbox, committed>>

FinderStep ==
  /\ pc = "finder"
  /\ \E resp \in FinderResponses :
       LET out == Finder(impl, settings.use_rag, resp)
       IN IF Has(out)
          THEN finder_out' = Val(out) /\ pc' = "counter"
          ELSE finder_out' = finder_out /\ pc' = "raised"
  /\ UNCHANGED <<others, impl, settings, rules, artifact, sigs, counter_out, judge_out,
                 use_llm_decision, verdict, decision, ledger, ret,
                 inbox, committed>>

CounterStep ==
  /\ pc = "counter"
  /\ \E resp \in CounterResponses :
       LET out == Counter(impl, settings.use_rag, resp)
       IN IF Has(out)
          THEN counter_out' = Val(out) /\ pc' = "judge"
          ELSE counter_out' = counter_out /\ pc' = "raised"
  /\ UNCHANGED <<others, impl, settings, rules, artifact, sigs, finder_out, judge_out,
                 use_llm_decision, verdict, decision, ledger, ret,
                 inbox, committed>>

\* use_llm_decision = not settings.use_rules_engine; judge(..., make_decision=use_llm_decision)
JudgeStep ==
  /\ pc = "judge"
  /\ use_llm_decision' = ~settings.use_rules_engine
  /\ \E resp \in JudgeResponses :
     \E all_signals \in Orderings(Range(finder_out.signals \o counter_out.missing_signals)) :
       LET out == Judge(impl, settings.use_rag, resp, use_llm_decision', all_signals)
       IN IF Has(out)
          THEN judge_out' = Val(out) /\ pc' = "merge"
          ELSE judge_out' = judge_out /\ pc' = "raised"
  /\ UNCHANGED <<others, impl, settings, rules, artifact, sigs, finder_out, counter_out,
                 verdict, decision, ledger, ret,
                 inbox, committed>>

\* the decision logic of analyze up to the Decision(...) constructor
MergeStep ==
  /\ pc = "merge"
  /\ \E all_signals \in FinalSignals(sigs, judge_out) :
     \E now \in Timestamps :
       LET m == Merge(impl, use_llm_decision, judge_out, finder_out,
                      rules, sigs, RuleText(artifact))
       IN /\ verdict' = m.verdict
          /\ decision' =
            [ feature_id |-> artifact.feature_id,
              needs_geo_compliance |-> m.needs_compliance,
              reasoning |-> m.reasoning,
              regulations |-> m.regulations,
              signals |-> all_signals,
              citations |-> Citations(impl, finder_out.citations),
              confidence |-> judge_out.confidence,
              matched_rules |-> m.matched_rules,
              hash |-> <<>>,
              ts |-> now,
              policy_version |-> PolicyVersion ]
  /\ pc' = "write_receipt"
  /\ UNCHANGED <<others, impl, settings, rules, artifact, sigs, finder_out, counter_out,
                 judge_out, use_llm_decision, ledger, ret,
                 inbox, committed>>

\* decision.hash = evidence_system.write_receipt(decision); return decision
\* (the backend's store_analysis touches only the analysis database)
WriteReceiptStep ==
  /\ pc = "write_receipt"
  /\ LET hashed == WriteReceipt(decision)
     IN /\ decision' = hashed
        /\ ledger' = Append(ledger, ReceiptLine(hashed))
        /\ ret' = Some(hashed)
  /\ pc' = "done"
  /\ UNCHANGED <<others, impl, settings, rules, artifact, sigs, finder_out, counter_out,
                 judge_out, use_llm_decision, verdict,
                 inbox, committed>>

\* POST /api/toggle_rag served between two stages: flip, or set when enable is given
ToggleRag ==
  /\ impl = "backend"
  /\ pc \in {"finder", "counter", "judge"}
  /\ \E enable \in {None, Some(TRUE), Some(FALSE)} :
       settings' = [settings EXCEPT !.use_rag =
                      IF Has(enable) THEN Val(enable) ELSE ~settings.use_rag]
  /\ UNCHANGED <<others, impl, rules, artifact, pc, sigs, finder_out, counter_out, judge_out,
                 use_llm_decision, verdict, decision, ledger, ret,
                 inbox, committed>>

Next ==
  \/ AnalyzeStart
  \/ FinderStep
  \/ CounterStep
  \/ JudgeStep
  \/ MergeStep
  \/ WriteReceiptStep
  \/ ToggleRag

Spec == Init /\ [][Next]_vars

(* ---------------- the rules engine alone ---------------- *)
InitRules ==
  /\ impl = "main"
  /\ settings = [use_rules_engine |-> TRUE, use_rag |-> TRUE]
  /\ \E k \in 0..MaxRules : \E f \in [1..k -> RuleShapes] : rules = RuleDoc(f, k)
  /\ artifact \in Artifacts
  /\ pc = "evaluate"
  /\ sigs = ExtractSignals(artifact)
  /\ finder_out = EmptyFinderOut
  /\ counter_out = EmptyCounterOut
  /\ judge_out = NoJudgeOut
  /\ use_llm_decision = FALSE
  /\ verdict = None
  /\ decision = NoDecision
  /\ ledger = <<>>
  /\ ret = None
  /\ inbox = <<>>
  /\ committed = <<>>
  /\ IdleOthers

\* verdict = rules_engine.evaluate(sigs, text)
EvaluateCall ==
  /\ pc = "evaluate"
  /\ verdict' = Some(Evaluate(rules, sigs.tags, RuleText(artifact)))
  /\ pc' = "evaluated"
  /\ UNCHANGED <<others, impl, settings, rules, artifact, sigs, finder_out, counter_out,
                 judge_out, use_llm_decision, decision, ledger, ret,
                 inbox, committed>>

NextRules == EvaluateCall

SpecRules == InitRules /\ [][NextRules]_vars

(* ---------------- write_receipt on its own ---------------- *)
StaleHash == <<"sha256-", "stale">>

BaseDecision ==
  [ feature_id |-> "F1", needs_geo_compliance |-> TRUE, reasoning |-> "r1",
    regulations |-> <<"GDPR">>, signals |-> <<"minors", "ads">>,
    citations |-> << [source |-> "s1", snippet |-> "n1"] >>,
    confidence |-> "0.8", matched_rules |-> <<"A">>, hash |-> <<>>,
    ts |-> "2025-08-30T10:00:00+00:00", policy_version |-> PolicyVersion ]

HashBases ==
  { [BaseDecision EXCEPT !.confidence = c, !.hash = h] :
      c \in {"0.8", "Infinity"}, h \in {<<>>, StaleHash} }

\* d itself and every Decision that differs from d in one field
Variants(d) ==
  { d,
    [d EXCEPT !.feature_id = "F2"],
    [d EXCEPT !.needs_geo_compliance = ~d.needs_geo_compliance],
    [d EXCEPT !.reasoning = "r2"],
    [d EXCEPT !.regulations = <<"COPPA">>],
    [d EXCEPT !.signals = <<"minors", "privacy">>],
    [d EXCEPT !.citations = << [source |-> "s1", snippet |-> "n2"] >>],
    [d EXCEPT !.confidence = IF d.confidence = "0.8" THEN "0.81" ELSE "-Infinity"],
    [d EXCEPT !.matched_rules = <<"A", "B">>],
    [d EXCEPT !.ts = "2025-08-30T10:00:01+00:00"],
    [d EXCEPT !.policy_version = "v0.2.0"] }

InitHash ==
  /\ impl \in {"main", "backend"}
  /\ settings = [use_rules_engine |-> FALSE, use_rag |-> TRUE]
  /\ rules = <<>>
  /\ artifact \in {a \in Artifacts : a.title = <<>> /\ a.tags = <<>> /\ a.description = <<"18">>}
  /\ pc = "hash"
  /\ sigs = ExtractSignals(artifact)
  /\ finder_out = EmptyFinderOut
  /\ counter_out = EmptyCounterOut
  /\ judge_out = NoJudgeOut
  /\ use_llm_decision = FALSE
  /\ verdict = None
  /\ decision = NoDecision
  /\ ledger = <<>>
  /\ ret = None
  /\ \E d1 \in HashBases : \E d2 \in Variants(d1) : \E h \in {<<>>, StaleHash} :
       inbox = <<d1, [d2 EXCEPT !.hash = h]>>
  /\ committed = <<>>
  /\ IdleOthers

\* evidence_system.write_receipt(decision) for the next Decision
WriteReceiptCall ==
  /\ pc = "hash"
  /\ inbox # <<>>
  /\ LET hashed == WriteReceipt(Head(inbox))
     IN /\ ledger' = Append(ledger, ReceiptLine(hashed))
        /\ committed' = Append(committed, hashed)
  /\ inbox' = Tail(inbox)
  /\ UNCHANGED <<others, impl, settings, rules, artifact, pc, sigs, finder_out, counter_out,
                 judge_out, use_llm_decision, verdict, decision, ret>>

NextHash == WriteReceiptCall

SpecHash == InitHash /\ [][NextHash]_vars

(* ---------------- loading the policy ---------------- *)
\* rules.yaml as the loader meets it: the file is missing, is not YAML, is
\* empty (safe_load gives None), holds a sequence, or holds a mapping whose
\* key 'rules' is absent or carries null, a string, or a list of rules
PolicyDocs ==
  { [kind |-> k, rules_key |-> None] :
      k \in {"missing", "unparseable", "empty", "sequence", "mapping"} }
  \cup
  { [kind |-> "mapping", rules_key |-> Some([type |-> t, value |-> <<>>])] :
      t \in {"NoneType", "str"} }
  \cup
  UNION { { [kind |-> "mapping",
             rules_key |-> Some([type |-> "list", value |-> RuleDoc(f, k)])] :
              f \in [1..k -> PipelineShapes] } : k \in 0..MaxRules }

\* a loader that answers every failure with the empty rule set
LoadRulesGuarded(doc) ==
  IF doc.kind = "mapping" /\ Has(doc.rules_key) /\ Val(doc.rules_key).type = "list"
  THEN [raised |-> "", type |-> "list", value |-> Val(doc.rules_key).value]
  ELSE [raised |-> "", type |-> "list", value |-> <<>>]

\* RulesEngine._load_rules: only FileNotFoundError is caught
LoadRules(doc) ==
  CASE doc.kind = "missing" -> [raised |-> "", type |-> "list", value |-> <<>>]
    [] doc.kind = "unparseable" -> [raised |-> "YAMLError", type |-> "", value |-> <<>>]
    [] doc.kind \in {"empty", "sequence"} ->
         [raised |-> "AttributeError", type |-> "", value |-> <<>>]
    [] OTHER ->
         IF Has(doc.rules_key)
         THEN [raised |-> "", type |-> Val(doc.rules_key).type,
               value |-> Val(doc.rules_key).value]
         ELSE [raised |-> "", type |-> "list", value |-> <<>>]

InitPolicy ==
  /\ impl \in {"main", "backend"}
  /\ settings = [use_rules_engine |-> TRUE, use_rag |-> TRUE]
  /\ rules = <<>>
  /\ artifact \in PipelineArtifacts
  /\ pc = "load"
  /\ sigs = ExtractSignals(artifact)
  /\ finder_out = EmptyFinderOut
  /\ counter_out = EmptyCounterOut
  /\ judge_out = NoJudgeOut
  /\ use_llm_decision = FALSE
  /\ verdict = None
  /\ decision = NoDecision
  /\ ledger = <<>>
  /\ ret = None
  /\ inbox = <<>>
  /\ committed = <<>>
  /\ IdleServer /\ IdleMerkle /\ IdleParser /\ IdleCalls /\ IdleRunner
  /\ policy_doc \in PolicyDocs
  /\ rules_type = ""

\* self.rules = self._load_rules() in RulesEngine.__init__
LoadRulesCall ==
  /\ pc = "load"
  /\ LET out == LoadRules(policy_doc)
     IN IF out.raised # ""
        THEN /\ pc' = "load_raised"
             /\ UNCHANGED <<rules, rules_type>>
        ELSE /\ pc' = "loaded"
             /\ rules' = out.value
             /\ rules_type' = out.type
  /\ UNCHANGED <<impl, settings, artifact, sigs, finder_out, counter_out, judge_out,
                 use_llm_decision, verdict, decision, ledger, ret, inbox, committed,
                 server_vars, merkle_vars, parser_vars, call_vars, runner_vars, policy_doc>>

\* verdict = rules_engine.evaluate(sigs, text): "for rule in self.rules" raises
\* on None, and rule.get raises on the characters of a str
EvaluateLoaded ==
  /\ pc = "loaded"
  /\ IF rules_type = "list"
     THEN /\ verdict' = Some(Evaluate(rules, sigs.tags, RuleText(artifact)))
          /\ pc' = "evaluated"
     ELSE /\ verdict' = verdict
          /\ pc' = "evaluate_raised"
  /\ UNCHANGED <<impl, settings, rules, artifact, sigs, finder_out, counter_out,
                 judge_out, use_llm_decision, decision, ledger, ret, inbox, committed,
                 others>>

NextPolicy == LoadRulesCall \/ EvaluateLoaded

SpecPolicy == InitPolicy /\ [][NextPolicy]_vars

(* ---------------- _parse_compliance_response, response_type "finder" ---------------- *)
\* a response is its lines after line.strip(); the lines of the model
JsonLine == "{\"signals\": [\"ads\"]}"

ResponseLines ==
  { "", "SIGNALS:", "Claims:", "CITATIONS:", "- ranking", "GDPR: EU users",
    "-a", "a:", "ok", JsonLine }

\* 'SIGNALS:' in line.upper(), then 'CLAIMS:', then 'CITATIONS:'
HeaderOf(line) ==
  CASE line = "SIGNALS:" -> "signals"
    [] line = "Claims:" -> "claims"
    [] line = "CITATIONS:" -> "citations"
    [] OTHER -> ""

\* line.startswith(('-', '*', '•'))
StartsWithBullet(line) == line \in {"- ranking", "-a"}

\* len(line)
LineLen(line) ==
  CASE line = "" -> 0
    [] line \in {"-a", "a:", "ok"} -> 2
    [] line = "SIGNALS:" -> 8
    [] line = "Claims:" -> 7
    [] line = "CITATIONS:" -> 10
    [] line = "- ranking" -> 9
    [] line = "GDPR: EU users" -> 14
    [] OTHER -> 20

\* line.lstrip('-*•').strip()
LStripBullets(line) ==
  CASE line = "- ranking" -> "ranking"
    [] line = "-a" -> "a"
    [] OTHER -> line

\* ':' in line
HasColon(line) == line \in {"SIGNALS:", "Claims:", "CITATIONS:", "GDPR: EU users", "a:", JsonLine}

\* parts = line.split(':', 1): the claim built from them
ClaimOf(line) ==
  CASE line = "GDPR: EU users" -> [regulation |-> "GDPR", why |-> "EU users", citations |-> <<>>]
    [] line = "a:" -> [regulation |-> "a", why |-> "", citations |-> <<>>]
    [] OTHER -> [regulation |-> "{\"signals\"", why |-> "[\"ads\"]}", citations |-> <<>>]

\* the loop body with the signals test in brackets: and (startswith(...) or len(line) > 2)
FinderLineBracketed(st, line) ==
  IF line = "" THEN st
  ELSE IF HeaderOf(line) # "" THEN [st EXCEPT !.current_section = HeaderOf(line)]
  ELSE IF st.current_section = "signals" /\ (StartsWithBullet(line) \/ LineLen(line) > 2)
       THEN IF LStripBullets(line) # ""
            THEN [st EXCEPT !.signals = Append(@, LStripBullets(line))] ELSE st
  ELSE IF st.current_section = "claims"
       THEN IF HasColon(line) THEN [st EXCEPT !.claims = Append(@, ClaimOf(line))] ELSE st
  ELSE IF st.current_section = "citations"
       THEN IF LStripBullets(line) # ""
            THEN [st EXCEPT !.citations = Append(@, LStripBullets(line))] ELSE st
  ELSE st

\* the loop body of the finder branch; Python reads its third test as
\* (current_section == 'signals' and line.startswith(...)) or len(line) > 2
FinderLine(st, line) ==
  IF line = "" THEN st
  ELSE IF HeaderOf(line) # "" THEN [st EXCEPT !.current_section = HeaderOf(line)]
  ELSE IF (st.current_section = "signals" /\ StartsWithBullet(line)) \/ LineLen(line) > 2
       THEN IF LStripBullets(line) # ""
            THEN [st EXCEPT !.signals = Append(@, LStripBullets(line))] ELSE st
  ELSE IF st.current_section = "claims"
       THEN IF HasColon(line) THEN [st EXCEPT !.claims = Append(@, ClaimOf(line))] ELSE st
  ELSE IF st.current_section = "citations"
       THEN IF LStripBullets(line) # ""
            THEN [st EXCEPT !.citations = Append(@, LStripBullets(line))] ELSE st
  ELSE st

RECURSIVE FinderLines(_, _)
FinderLines(st, lines) ==
  IF lines = <<>> THEN st ELSE FinderLines(FinderLine(st, Head(lines)), Tail(lines))

\* the lines of the response that are not blank
RECURSIVE NonBlank(_)
NonBlank(lines) ==
  IF lines = <<>> THEN <<>>
  ELSE (IF Head(lines) = "" THEN <<>> ELSE <<Head(lines)>>) \o NonBlank(Tail(lines))

\* response.strip().startswith('{') and json.loads(response) succeeds
LoadsAsJson(lines) == NonBlank(lines) = <<JsonLine>>

\* _parse_compliance_response(response, "finder"): the dict it returns, each
\* key present or not; no operation of the finder branch raises on a str
ParseComplianceResponse(lines) ==
  IF LoadsAsJson(lines)
  THEN [signals |-> Some(<<"ads">>), claims |-> None, citations |-> None,
        raw_response |-> None]
  ELSE LET st == FinderLines([current_section |-> "", signals |-> <<>>,
                              claims |-> <<>>, citations |-> <<>>], lines)
       IN [signals |-> Some(st.signals), claims |-> Some(st.claims),
           citations |-> Some(st.citations), raw_response |-> None]

InitParse ==
  /\ impl = "backend"
  /\ settings = [use_rules_engine |-> FALSE, use_rag |-> TRUE]
  /\ rules = <<>>
  /\ artifact \in {a \in Artifacts : a.title = <<>> /\ a.tags = <<>> /\ a.description = <<"18">>}
  /\ pc = "parse"
  /\ sigs = ExtractSignals(artifact)
  /\ finder_out = EmptyFinderOut
  /\ counter_out = EmptyCounterOut
  /\ judge_out = NoJudgeOut
  /\ use_llm_decision = FALSE
  /\ verdict = None
  /\ decision = NoDecision
  /\ ledger = <<>>
  /\ ret = None
  /\ inbox = <<>>
  /\ committed = <<>>
  /\ IdleServer /\ IdleMerkle /\ IdlePolicy /\ IdleCalls /\ IdleRunner
  /\ \E n \in 0..MaxLines : raw_response \in [1..n -> ResponseLines]
  /\ parse_result = None

\* return self._parse_compliance_response(result, response_type="finder")
ParseCall ==
  /\ pc = "parse"
  /\ parse_result' = Some(ParseComplianceResponse(raw_response))
  /\ pc' = "parsed"
  /\ UNCHANGED <<impl, settings, rules, artifact, sigs, finder_out, counter_out,
                 judge_out, use_llm_decision, verdict, decision, ledger, ret,
                 inbox, committed, server_vars, merkle_vars, policy_vars, call_vars, runner_vars,
                 raw_response>>

NextParse == ParseCall

SpecParse == InitParse /\ [][NextParse]_vars

(* ---------------- merkle_root ---------------- *)
\* a str is a sequence of tokens, + is \o and "" is <<>>
RECURSIVE NextLevel(_, _)
\* a level in which a trailing unpaired element is hashed alone
NextLevelOddAlone(hs, i) ==
  IF i > Len(hs)
  THEN <<>>
  ELSE LET combined == IF i + 1 <= Len(hs) THEN hs[i] \o hs[i + 1] ELSE hs[i]
       IN <<ComputeSha256(combined)>> \o NextLevel(hs, i + 2)

\* a level in which a trailing unpaired element is paired with the first one
NextLevelOddWithFirst(hs, i) ==
  IF i > Len(hs)
  THEN <<>>
  ELSE LET combined == IF i + 1 <= Len(hs) THEN hs[i] \o hs[i + 1] ELSE hs[i] \o hs[1]
       IN <<ComputeSha256(combined)>> \o NextLevel(hs, i + 2)

NextLevel(hs, i) ==
  IF i > Len(hs)
  THEN <<>>
  ELSE LET combined == IF i + 1 <= Len(hs) THEN hs[i] \o hs[i + 1] ELSE hs[i] \o hs[i]
       IN <<ComputeSha256(combined)>> \o NextLevel(hs, i + 2)

RECURSIVE MerkleRoot(_)
MerkleRoot(hs) ==
  IF hs = <<>> THEN <<>>
  ELSE IF Len(hs) = 1 THEN hs[1]
  ELSE MerkleRoot(NextLevel(hs, 1))

\* the strings handed to merkle_root: "a", "b" and "ab"
LeafHashes == { <<"a">>, <<"b">>, <<"a", "b">> }

InitMerkle ==
  /\ impl \in {"main", "backend"}
  /\ settings = [use_rules_engine |-> FALSE, use_rag |-> TRUE]
  /\ rules = <<>>
  /\ artifact \in {a \in Artifacts : a.title = <<>> /\ a.tags = <<>> /\ a.description = <<"18">>}
  /\ pc = "merkle"
  /\ sigs = ExtractSignals(artifact)
  /\ finder_out = EmptyFinderOut
  /\ counter_out = EmptyCounterOut
  /\ judge_out = NoJudgeOut
  /\ use_llm_decision = FALSE
  /\ verdict = None
  /\ decision = NoDecision
  /\ ledger = <<>>
  /\ ret = None
  /\ inbox = <<>>
  /\ committed = <<>>
  /\ IdleServer /\ IdlePolicy /\ IdleParser /\ IdleCalls /\ IdleRunner
  /\ \E n \in 0..MaxHashes : hashes \in [1..n -> LeafHashes]
  /\ root = None

\* merkle = merkle_root(hashes)
MerkleRootCall ==
  /\ pc = "merkle"
  /\ root' = Some(MerkleRoot(hashes))
  /\ pc' = "merkled"
  /\ UNCHANGED <<impl, settings, rules, artifact, sigs, finder_out, counter_out,
                 judge_out, use_llm_decision, verdict, decision, ledger, ret,
                 inbox, committed, server_vars, policy_vars, parser_vars, call_vars, runner_vars,
                 hashes>>

NextMerkle == MerkleRootCall

SpecMerkle == InitMerkle /\ [][NextMerkle]_vars

(* ---------------- the ledger file and the archive ---------------- *)
\* the file is the sequence of chunks written to it: a JSON text, or '\n'
Newline == <<>>

\* the file opened with 'w': the text replaces what was there
WriteTextTruncating(file, text) == Some(text)

\* open(self.receipts_file, 'a') ... f.write(text): the file is created when missing
AppendText(file, text) == Some(Get(file, <<>>) \o text)

\* the line written without its '\n'
ReceiptTextUnterminated(d) == <<ReceiptLine(d)>>

\* orjson.dumps(decision.model_dump()).decode() + '\n'
ReceiptText(d) == <<ReceiptLine(d), Newline>>

\* for line in f: the chunks up to each '\n', and an unterminated rest
RECURSIVE SplitLines(_, _)
SplitLines(content, cur) ==
  IF content = <<>>
  THEN IF cur = <<>> THEN <<>> ELSE <<cur>>
  ELSE IF Head(content) = Newline
       THEN <<cur>> \o SplitLines(Tail(content), <<>>)
       ELSE SplitLines(Tail(content), Append(cur, Head(content)))

FileLines(file) == IF Has(file) THEN SplitLines(Val(file), <<>>) ELSE <<>>

\* try: decision_data = orjson.loads(line); if 'hash' in decision_data: hashes.append(...)
\* except: continue -- a line parses when it holds exactly one JSON text, whole
ParsesAsJson(line) == Len(line) = 1 /\ Len(line[1]) = Len(ReceiptLine(NoDecision))

RECURSIVE ZipHashes(_)
\* the hashes collected in reverse ledger order
ZipHashesReversed(lines) ==
  IF lines = <<>> THEN <<>>
  ELSE ZipHashes(Tail(lines))
       \o (IF ParsesAsJson(Head(lines)) THEN <<LoadsLine(Head(lines)[1]).hash>> ELSE <<>>)

ZipHashes(lines) ==
  IF lines = <<>> THEN <<>>
  ELSE (IF ParsesAsJson(Head(lines)) THEN <<LoadsLine(Head(lines)[1]).hash>> ELSE <<>>)
       \o ZipHashes(Tail(lines))

\* EvidenceSystem.make_evidence_zip: the members of the archive
MakeEvidenceZip(file, csv, doc) ==
  [ receipts |-> file,
    outputs |-> csv,
    policy_snapshot |-> IF doc.kind = "missing" THEN None ELSE Some(doc),
    merkle |-> MerkleRoot(ZipHashes(FileLines(file))) ]

\* one row of export_csv
CsvRow(d) ==
  [ feature_id |-> d.feature_id, title |-> "",
    needs_geo_compliance |-> d.needs_geo_compliance, reasoning |-> d.reasoning,
    regulations |-> d.regulations, confidence |-> d.confidence,
    signals |-> d.signals, citations |-> Len(d.citations),
    matched_rules |-> d.matched_rules, policy_version |-> d.policy_version,
    ts |-> d.ts ]

\* EvidenceSystem.export_csv: nothing is written for an empty list
ExportCsv(csv, decisions) ==
  IF decisions = <<>> THEN csv
  ELSE Some([i \in 1..Len(decisions) |-> CsvRow(decisions[i])])

(* ---------------- the server: requests on one event loop ---------------- *)
\* Every endpoint is an async def run by the one event loop of uvicorn.run(app):
\* a request runs alone from one await to the next, and the awaits of analyze
\* are its three stage calls.
ServerItems ==
  { [feature_id |-> f, title |-> <<>>, description |-> <<"18">>,
     code_hints |-> <<>>, tags |-> t] :
      f \in {"F1", "F2"}, t \in {<<"minors">>} }

ItemOf(f) == CHOOSE a \in ServerItems : a.feature_id = f

\* a request as it arrives: the endpoint and its body
NewRequest(op, items) ==
  [ op |-> op, pc |-> "start", items |-> items, k |-> 1,
    fo |-> EmptyFinderOut, co |-> EmptyCounterOut, jo |-> NoJudgeOut,
    mk |-> FALSE, decisions |-> <<>>, status |-> 0, body |-> None,
    rag |-> TRUE, modes |-> <<>> ]

Workload ==
  << NewRequest("analyze", <<ItemOf("F1")>>),
     NewRequest("bulk_analyze", <<ItemOf("F1"), ItemOf("F2")>>),
     NewRequest("bulk_analyze", <<>>),
     NewRequest("evidence", <<>>),
     NewRequest("refresh_corpus", <<>>),
     NewRequest("toggle_rag", <<>>) >>

\* what the stage calls of the server's analyses come back with
ServerFinderResponses ==
  { [kind |-> "fail", signals |-> None, claims |-> None, citations |-> None],
    [kind |-> "json", signals |-> None,
     claims |-> Some(<< [regulation |-> Some("GDPR")] >>), citations |-> None] }

ServerCounterResponse ==
  [kind |-> "empty", counter_points |-> None, missing_signals |-> None]

ServerJudgeResponse ==
  [kind |-> "json", signals |-> None, notes |-> Some("arbiter notes"),
   confidence |-> Some("0.81"), requires_compliance |-> Some(TRUE)]

\* get_utc_timestamp() while the server runs: the clock does not tick between
\* the receipts of one run, so equal analyses write equal lines
ServerNow == "2025-08-30T10:00:01+00:00"

\* a receipt written before the server started
PriorDecision ==
  WriteReceipt([BaseDecision EXCEPT !.feature_id = "F0"])

\* the Decision(...) constructor of analyze
NewDecision(im, a, rq, rs, all_signals, now) ==
  LET m == Merge(im, rq.mk, rq.jo, rq.fo, rs, ExtractSignals(a), RuleText(a))
  IN [ feature_id |-> a.feature_id,
       needs_geo_compliance |-> m.needs_compliance,
       reasoning |-> m.reasoning,
       regulations |-> m.regulations,
       signals |-> all_signals,
       citations |-> Citations(im, rq.fo.citations),
       confidence |-> rq.jo.confidence,
       matched_rules |-> m.matched_rules,
       hash |-> <<>>,
       ts |-> now,
       policy_version |-> PolicyVersion ]

InitServer ==
  /\ impl \in {"main", "backend"}
  /\ settings \in [use_rules_engine : {FALSE}, use_rag : BOOLEAN]
  /\ impl = "main" => settings.use_rag
  /\ rules = <<>>
  /\ artifact = ItemOf("F1")
  /\ pc = "serving"
  /\ sigs = ExtractSignals(artifact)
  /\ finder_out = EmptyFinderOut
  /\ counter_out = EmptyCounterOut
  /\ judge_out = NoJudgeOut
  /\ use_llm_decision = FALSE
  /\ verdict = None
  /\ decision = NoDecision
  /\ ledger = <<>>
  /\ ret = None
  /\ inbox = <<>>
  /\ committed = <<>>
  /\ \E f \in [1..MaxRequests -> 1..Len(Workload)] :
       /\ \A i \in 1..(MaxRequests - 1) : f[i] <= f[i + 1]
       /\ requests = [i \in 1..MaxRequests |-> Workload[f[i]]]
  /\ receipts_file \in {None, Some(ReceiptText(PriorDecision))}
  /\ outputs_csv = None
  /\ archive = None
  /\ IdleMerkle /\ IdlePolicy /\ IdleParser /\ IdleCalls /\ IdleRunner

\* the frame of a server step: only the requests, the settings and the files move
ServerFrame ==
  UNCHANGED <<impl, rules, artifact, pc, sigs, finder_out, counter_out, judge_out,
              use_llm_decision, verdict, decision, ledger, ret, inbox, committed,
              merkle_vars, policy_vars, parser_vars, call_vars, runner_vars>>

\* return {"count": len(decisions), "csv_path": csv_path}
BulkResponse(decisions) ==
  [count |-> Len(decisions), csv_path |-> "data/outputs.csv"]

\* bulk_analyze after an item: the next item, or export_csv and the response
AfterItem(r, rq) ==
  IF rq.op = "analyze"
  THEN /\ requests' = [requests EXCEPT ![r] =
                         [rq EXCEPT !.pc = "done",
                                    !.status = IF rq.decisions = <<>> THEN 500 ELSE 200]]
       /\ outputs_csv' = outputs_csv
  ELSE IF rq.k < Len(rq.items)
       THEN /\ requests' = [requests EXCEPT ![r] =
                              [rq EXCEPT !.pc = "finder", !.k = rq.k + 1,
                                         !.fo = EmptyFinderOut, !.co = EmptyCounterOut,
                                         !.jo = NoJudgeOut,
                                         !.rag = settings.use_rag,
                                         !.modes = <<settings.use_rag>>]]
            /\ outputs_csv' = outputs_csv
       ELSE /\ requests' = [requests EXCEPT ![r] =
                              [rq EXCEPT !.pc = "done", !.status = 200,
                                         !.body = Some(BulkResponse(rq.decisions))]]
            /\ outputs_csv' = ExportCsv(outputs_csv, rq.decisions)

\* a stage of the backend that found use_rag on calls the chain synchronously:
\* its request keeps the event loop until it returns or reaches a stage that
\* awaits call_openai, and no other request runs meanwhile
HoldsLoop(q) ==
  /\ impl = "backend"
  /\ requests[q].pc \in {"finder", "counter", "judge"}
  /\ requests[q].rag

Scheduled(r) == \A q \in 1..Len(requests) : q # r => ~HoldsLoop(q)

\* the request is accepted: analyze runs up to the finder call, which reads
\* settings.use_rag as it starts
BeginAnalysis(r) ==
  /\ Scheduled(r)
  /\ requests[r].pc = "start"
  /\ requests[r].op \in {"analyze", "bulk_analyze"}
  /\ requests' = [requests EXCEPT ![r] =
                    IF requests[r].items = <<>>
                    THEN [@ EXCEPT !.pc = "done", !.status = 400]
                    ELSE [@ EXCEPT !.pc = "finder", !.rag = settings.use_rag,
                                   !.modes = <<settings.use_rag>>]]
  /\ UNCHANGED <<settings, receipts_file, outputs_csv, archive>>
  /\ ServerFrame

\* the finder call returns or raises; analyze runs up to the counter call,
\* which reads settings.use_rag as it starts
FinderReturns(r) ==
  /\ Scheduled(r)
  /\ requests[r].pc = "finder"
  /\ \E resp \in ServerFinderResponses :
       LET out == Finder(impl, requests[r].rag, resp)
       IN IF Has(out)
          THEN /\ requests' = [requests EXCEPT ![r] =
                                 [@ EXCEPT !.pc = "counter", !.fo = Val(out),
                                           !.rag = settings.use_rag,
                                           !.modes = Append(@, settings.use_rag)]]
               /\ outputs_csv' = outputs_csv
          ELSE AfterItem(r, requests[r])
  /\ UNCHANGED <<settings, receipts_file, archive>>
  /\ ServerFrame

\* the counter call returns; analyze reads the toggle and starts the judge
\* call, which reads settings.use_rag
CounterReturns(r) ==
  /\ Scheduled(r)
  /\ requests[r].pc = "counter"
  /\ LET out == Counter(impl, requests[r].rag, ServerCounterResponse)
     IN requests' = [requests EXCEPT ![r] =
                       [@ EXCEPT !.pc = "judge", !.co = Val(out),
                                 !.mk = ~settings.use_rules_engine,
                                 !.rag = settings.use_rag,
                                 !.modes = Append(@, settings.use_rag)]]
  /\ UNCHANGED <<settings, receipts_file, outputs_csv, archive>>
  /\ ServerFrame

\* the judge call returns: analyze merges, builds the Decision, writes the
\* receipt, reads settings.use_rag for the store step and returns, all
\* without another await
JudgeReturns(r) ==
  /\ Scheduled(r)
  /\ requests[r].pc = "judge"
  /\ \E now \in {ServerNow} :
       LET rq == requests[r]
           a == rq.items[rq.k]
           out == Judge(impl, rq.rag, ServerJudgeResponse, rq.mk, <<>>)
           rj == [rq EXCEPT !.jo = Val(out),
                            !.modes = Append(@, settings.use_rag)]
       IN \E all_signals \in FinalSignals(ExtractSignals(a), rj.jo) :
            LET hashed == WriteReceipt(NewDecision(impl, a, rj, rules, all_signals, now))
            IN /\ receipts_file' = AppendText(receipts_file, ReceiptText(hashed))
               /\ AfterItem(r, [rj EXCEPT !.decisions = Append(rq.decisions, hashed)])
  /\ UNCHANGED <<settings, archive>>
  /\ ServerFrame

\* GET /api/evidence
GetEvidence(r) ==
  /\ Scheduled(r)
  /\ requests[r].pc = "start"
  /\ requests[r].op = "evidence"
  /\ archive' = Some(MakeEvidenceZip(receipts_file, outputs_csv, policy_doc))
  /\ requests' = [requests EXCEPT ![r] = [@ EXCEPT !.pc = "done", !.status = 200]]
  /\ UNCHANGED <<settings, receipts_file, outputs_csv>>
  /\ ServerFrame

\* POST /api/refresh_corpus: it re-indexes the retrieval corpus only
RefreshCorpus(r) ==
  /\ Scheduled(r)
  /\ requests[r].pc = "start"
  /\ requests[r].op = "refresh_corpus"
  /\ requests' = [requests EXCEPT ![r] = [@ EXCEPT !.pc = "done", !.status = 200]]
  /\ UNCHANGED <<settings, receipts_file, outputs_csv, archive>>
  /\ ServerFrame

\* POST /api/toggle_rag (the backend's endpoint; src/main.py has no such route)
ServeToggleRag(r) ==
  /\ Scheduled(r)
  /\ requests[r].pc = "start"
  /\ requests[r].op = "toggle_rag"
  /\ IF impl = "backend"
     THEN /\ \E enable \in {None, Some(FALSE)} :
               settings' = [settings EXCEPT !.use_rag =
                              IF Has(enable) THEN Val(enable) ELSE ~settings.use_rag]
          /\ requests' = [requests EXCEPT ![r] = [@ EXCEPT !.pc = "done", !.status = 200]]
     ELSE /\ settings' = settings
          /\ requests' = [requests EXCEPT ![r] = [@ EXCEPT !.pc = "done", !.status = 404]]
  /\ UNCHANGED <<receipts_file, outputs_csv, archive>>
  /\ ServerFrame

NextServer ==
  \E r \in 1..Len(requests) :
    \/ BeginAnalysis(r)
    \/ FinderReturns(r)
    \/ CounterReturns(r)
    \/ JudgeReturns(r)
    \/ GetEvidence(r)
    \/ RefreshCorpus(r)
    \/ ServeToggleRag(r)

SpecServer == InitServer /\ [][NextServer]_vars

(* ---------------- call_openai: attempts, timeout, retries ---------------- *)
\* @retry(stop=stop_after_attempt(3), wait=wait_exponential(...))
StopAfterAttempt == 3

\* what one attempt of the model API does: it answers, it runs into the time
\* limit, or it fails with another error (rate limit, transport)
AttemptResults == {"ok", "timeout", "error"}

\* a time limit that is an error like any other
OnTimeoutRaises(im) == "error"

\* the backend wraps the attempt in asyncio.wait_for and answers the
\* TimeoutError with the sentinel text; src/main.py has no such branch, the
\* time limit of the client reaches it as an exception
OnTimeout(im) == IF im = "backend" THEN "sentinel" ELSE "error"

\* the three parsers of the backend on "TIMEOUT: Analysis timed out": the line
\* holds no section word and starts with no bullet, so nothing is collected
SentinelResponse(s) ==
  CASE s = "finder" -> [kind |-> "text", signals |-> None, claims |-> None,
                        citations |-> None]
    [] s = "counter" -> [kind |-> "text", counter_points |-> None,
                         missing_signals |-> None]
    [] s = "judge" -> [kind |-> "text", signals |-> None, notes |-> None,
                       confidence |-> None, requires_compliance |-> None]

\* what the stage sees when call_openai raised: no response at all
FailedResponse(s) ==
  CASE s = "finder" -> [kind |-> "fail", signals |-> None, claims |-> None,
                        citations |-> None]
    [] s = "counter" -> [kind |-> "fail", counter_points |-> None,
                         missing_signals |-> None]
    [] s = "judge" -> [kind |-> "fail", signals |-> None, notes |-> None,
                       confidence |-> None, requires_compliance |-> None]

\* the answers of the model the calls are run with
CallContents(s) ==
  CASE s = "finder" ->
         { [kind |-> "empty", signals |-> None, claims |-> None, citations |-> None],
           [kind |-> "json", signals |-> Some(<<"privacy">>),
            claims |-> Some(<< [regulation |-> Some("GDPR")] >>),
            citations |-> Some(<<"legal_doc_0">>)] }
    [] s = "counter" ->
         { [kind |-> "json", counter_points |-> Some(<<"internal tool">>),
            missing_signals |-> Some(<<"minors">>)] }
    [] s = "judge" ->
         { [kind |-> "json", signals |-> None, notes |-> Some("arbiter notes"),
            confidence |-> Some("0.81"), requires_compliance |-> Some(TRUE)],
           [kind |-> "json", signals |-> None, notes |-> Some("arbiter notes"),
            confidence |-> Some("85"), requires_compliance |-> Some(TRUE)],
           [kind |-> "text", signals |-> None, notes |-> None,
            confidence |-> Some("85"), requires_compliance |-> None],
           [kind |-> "text", signals |-> None, notes |-> Some("minors are targeted"),
            confidence |-> Some("0.9"), requires_compliance |-> Some(TRUE)],
           [kind |-> "text", signals |-> None, notes |-> Some("internal tool"),
            confidence |-> Some("0.3"), requires_compliance |-> Some(FALSE)] }

\* one attempt of call_openai: an answer or the sentinel is returned at once,
\* an error is raised again by the except branch and counted by the retry
\* decorator, which gives up with RetryError after the third attempt
CallAttempt(c, im, s, result, resp) ==
  LET eff == IF result = "timeout" THEN OnTimeout(im) ELSE result
      n == c.attempts + 1
  IN [ via |-> "call_openai",
       attempts |-> n,
       last |-> result,
       outcome |-> CASE eff = "ok" -> "content"
                     [] eff = "sentinel" -> "sentinel"
                     [] OTHER -> IF n >= StopAfterAttempt THEN "raised" ELSE "none",
       content |-> CASE eff = "ok" -> Some(resp)
                     [] eff = "sentinel" -> Some(SentinelResponse(s))
                     [] OTHER -> None ]

\* the response the stage works on once call_openai is over
CallResponse(s) ==
  IF calls[s].outcome = "raised" THEN FailedResponse(s) ELSE Val(calls[s].content)

\* one analysis, one rule, both implementations and both modes of the backend
InitCalls ==
  /\ impl \in {"main", "backend"}
  /\ settings \in [use_rules_engine : BOOLEAN, use_rag : BOOLEAN]
  /\ impl = "main" => settings.use_rag
  /\ rules = RuleDoc([i \in 1..1 |->
                        [when_any |-> Some([tags |-> Some(AnyTagsCond), text |-> None]),
                         when_any_text |-> None, when_all_text |-> None,
                         and_text |-> None, verdict |-> Some(TRUE)]], 1)
  /\ artifact = [feature_id |-> "F1", title |-> <<"Under">>, description |-> <<"18">>,
                 code_hints |-> <<>>, tags |-> <<"minors">>]
  /\ pc = "start"
  /\ sigs = [tags |-> {}, text_signals |-> {}, hints |-> <<>>]
  /\ finder_out = EmptyFinderOut
  /\ counter_out = EmptyCounterOut
  /\ judge_out = NoJudgeOut
  /\ use_llm_decision = FALSE
  /\ verdict = None
  /\ decision = NoDecision
  /\ ledger = <<>>
  /\ ret = None
  /\ inbox = <<>>
  /\ committed = <<>>
  /\ IdleServer /\ IdleMerkle /\ IdlePolicy /\ IdleParser /\ IdleCalls /\ IdleRunner

PipelineFrame == UNCHANGED <<server_vars, merkle_vars, policy_vars, parser_vars, runner_vars,
                             impl, settings, rules, artifact, sigs, verdict,
                             decision, ledger, ret, inbox, committed>>

\* response = await self.call_openai(messages): one attempt of the call the
\* stage at pc has made; src/main.py always calls, the backend when the stage
\* found use_rag off as it started
CallOpenAI(s) ==
  /\ pc = s
  /\ calls[s].outcome = "none"
  /\ \/ calls[s].via = "call_openai"
     \/ calls[s].via = "none" /\ (impl = "main" \/ ~settings.use_rag)
  /\ \E result \in AttemptResults : \E resp \in CallContents(s) :
       calls' = [calls EXCEPT ![s] = CallAttempt(@, impl, s, result, resp)]
  /\ UNCHANGED <<pc, finder_out, counter_out, judge_out, use_llm_decision>>
  /\ PipelineFrame

\* finder after call_openai is over
FinderDirect ==
  /\ pc = "finder"
  /\ calls["finder"].via = "call_openai"
  /\ calls["finder"].outcome # "none"
  /\ LET out == Finder(impl, FALSE, CallResponse("finder"))
     IN IF Has(out)
        THEN finder_out' = Val(out) /\ pc' = "counter"
        ELSE finder_out' = finder_out /\ pc' = "raised"
  /\ UNCHANGED <<calls, counter_out, judge_out, use_llm_decision>>
  /\ PipelineFrame

\* counter after call_openai is over
CounterDirect ==
  /\ pc = "counter"
  /\ calls["counter"].via = "call_openai"
  /\ calls["counter"].outcome # "none"
  /\ LET out == Counter(impl, FALSE, CallResponse("counter"))
     IN IF Has(out)
        THEN counter_out' = Val(out) /\ pc' = "judge"
        ELSE counter_out' = counter_out /\ pc' = "raised"
  /\ UNCHANGED <<calls, finder_out, judge_out, use_llm_decision>>
  /\ PipelineFrame

\* judge after call_openai is over; use_llm_decision was set before the call
JudgeDirect ==
  /\ pc = "judge"
  /\ calls["judge"].via = "call_openai"
  /\ calls["judge"].outcome # "none"
  /\ use_llm_decision' = ~settings.use_rules_engine
  /\ \E all_signals \in Orderings(Range(finder_out.signals \o counter_out.missing_signals)) :
       LET out == Judge(impl, FALSE, CallResponse("judge"), use_llm_decision', all_signals)
       IN IF Has(out)
          THEN judge_out' = Val(out) /\ pc' = "merge"
          ELSE judge_out' = judge_out /\ pc' = "raised"
  /\ UNCHANGED <<calls, finder_out, counter_out>>
  /\ PipelineFrame

\* the chain of the RAG mode: it answers, or _safe_rag_invoke raises on a time
\* limit or another error and compliance_finder/_counter/_judge catch it
RagResults(s) ==
  { [last |-> "ok", resp |-> r] : r \in CallContents(s) }
  \cup { [last |-> l, resp |-> FailedResponse(s)] : l \in {"timeout", "error"} }

RagCall(r) == [via |-> "rag", attempts |-> 1, last |-> r.last, outcome |-> "chain",
               content |-> None]

\* a stage of the backend that found use_rag on: the synchronous chain call
StageRag(s) ==
  /\ impl = "backend"
  /\ settings.use_rag
  /\ pc = s
  /\ calls[s].via = "none"
  /\ \E r \in RagResults(s) :
       /\ calls' = [calls EXCEPT ![s] = RagCall(r)]
       /\ CASE s = "finder" ->
                 /\ finder_out' = Val(Finder(impl, TRUE, r.resp))
                 /\ pc' = "counter"
                 /\ UNCHANGED <<counter_out, judge_out, use_llm_decision>>
            [] s = "counter" ->
                 /\ counter_out' = Val(Counter(impl, TRUE, r.resp))
                 /\ pc' = "judge"
                 /\ UNCHANGED <<finder_out, judge_out, use_llm_decision>>
            [] s = "judge" ->
                 /\ use_llm_decision' = ~settings.use_rules_engine
                 /\ \E all_signals \in
                        Orderings(Range(finder_out.signals \o counter_out.missing_signals)) :
                      judge_out' = Val(Judge(impl, TRUE, r.resp, use_llm_decision',
                                             all_signals))
                 /\ pc' = "merge"
                 /\ UNCHANGED <<finder_out, counter_out>>
  /\ PipelineFrame

NextCalls ==
  \/ AnalyzeStart
  \/ \E s \in Stages : CallOpenAI(s)
  \/ FinderDirect
  \/ CounterDirect
  \/ JudgeDirect
  \/ \E s \in Stages : StageRag(s)
  \/ MergeStep
  \/ WriteReceiptStep
  \/ ToggleRag

SpecCalls == InitCalls /\ [][NextCalls]_vars

(* ---------------- write_receipt when the file cannot be written ---------------- *)
\* the Decisions analyze hands to write_receipt here
DiskDecisions == Variants(BaseDecision)

\* what of the line has reached the file when f.write or the flush at the
\* end of the with block raises: the first n members, without the '\n'
PartialText(d, n) == << Take(ReceiptLine(d), n) >>

InitDisk ==
  /\ impl \in {"main", "backend"}
  /\ settings = [use_rules_engine |-> FALSE, use_rag |-> TRUE]
  /\ rules = <<>>
  /\ artifact \in {a \in Artifacts : a.title = <<>> /\ a.tags = <<>> /\ a.description = <<"18">>}
  /\ pc = "write_receipt"
  /\ sigs = ExtractSignals(artifact)
  /\ finder_out = EmptyFinderOut
  /\ counter_out = EmptyCounterOut
  /\ judge_out = NoJudgeOut
  /\ use_llm_decision = TRUE
  /\ verdict = None
  /\ decision \in DiskDecisions
  /\ ledger = <<>>
  /\ ret = None
  /\ inbox = <<>>
  /\ committed = <<>>
  /\ requests = << [NewRequest("analyze", <<ItemOf("F1")>>) EXCEPT !.pc = "judge"] >>
  /\ receipts_file \in {None, Some(ReceiptText(PriorDecision))}
  /\ outputs_csv = None
  /\ archive = None
  /\ IdleMerkle /\ IdlePolicy /\ IdleParser /\ IdleCalls /\ IdleRunner

DiskFrame ==
  UNCHANGED <<impl, settings, rules, artifact, sigs, finder_out, counter_out, judge_out,
              use_llm_decision, verdict, ledger, inbox, committed, outputs_csv, archive,
              merkle_vars, policy_vars, parser_vars, call_vars, runner_vars>>

\* decision.hash = evidence_system.write_receipt(decision); return decision
WriteReceiptAppends ==
  /\ pc = "write_receipt"
  /\ LET hashed == WriteReceipt(decision)
     IN /\ decision' = hashed
        /\ receipts_file' = AppendText(receipts_file, ReceiptText(hashed))
        /\ ret' = Some(hashed)
  /\ pc' = "returned"
  /\ UNCHANGED requests
  /\ DiskFrame

\* open(self.receipts_file, 'a') raises (permission denied): the hash is
\* already stored in the Decision, nothing is written, the OSError leaves
\* write_receipt and analyze
WriteReceiptOpenRaises ==
  /\ pc = "write_receipt"
  /\ decision' = WriteReceipt(decision)
  /\ receipts_file' = receipts_file
  /\ ret' = None
  /\ pc' = "raised"
  /\ UNCHANGED requests
  /\ DiskFrame

\* f.write or the flush at the end of the with block raises (disk full): the
\* file is open, and any part of the line may have reached it
WriteReceiptWriteRaises ==
  /\ pc = "write_receipt"
  /\ LET hashed == WriteReceipt(decision)
     IN /\ decision' = hashed
        /\ \E n \in 0..Len(ReceiptLine(hashed)) :
             receipts_file' =
               IF n = 0 THEN Some(Get(receipts_file, <<>>))
               ELSE AppendText(receipts_file, PartialText(hashed, n))
  /\ ret' = None
  /\ pc' = "raised"
  /\ UNCHANGED requests
  /\ DiskFrame

\* analyze_endpoint: return await analyze(artifact), or HTTPException(500)
AnalyzeEndpoint ==
  /\ pc \in {"returned", "raised"}
  /\ requests[1].pc = "judge"
  /\ requests' = [requests EXCEPT ![1] =
                    IF pc = "returned"
                    THEN [@ EXCEPT !.pc = "done", !.status = 200, !.body = ret,
                                   !.decisions = <<Val(ret)>>]
                    ELSE [@ EXCEPT !.pc = "done", !.status = 500]]
  /\ UNCHANGED <<pc, decision, receipts_file, ret>>
  /\ DiskFrame

NextDisk ==
  \/ WriteReceiptAppends
  \/ WriteReceiptOpenRaises
  \/ WriteReceiptWriteRaises
  \/ AnalyzeEndpoint

SpecDisk == InitDisk /\ [][NextDisk]_vars

(* ---------------- extract_signals and evaluate, call after call ---------------- *)
\* artifacts with and without declared tags, with and without a text that
\* spells a topic, with and without a code hint that spells a rule term
RepeatArtifacts ==
  [ feature_id : {"F1"}, title : Titles, description : { <<"18">> },
    code_hints : { <<>>, <<"advertising">> }, tags : TagLists ]

\* the tags a rule condition is tested against with every topic the extractor
\* found added to them
RuleTagsWithTopics(ss) == ss.tags \cup ss.text_signals

\* _check_tags: any(tag in signals.tags for tag in required_tags)
RuleTags(ss) == ss.tags

\* the record kept of one call: its input, and what the two components returned
CallRecord(a, ss, v) == [artifact |-> a, sigs |-> ss, verdict |-> v]

InitRepeat ==
  /\ impl = "main"
  /\ settings = [use_rules_engine |-> TRUE, use_rag |-> TRUE]
  /\ \E k \in 0..1 : \E f \in [1..k -> PipelineShapes] : rules = RuleDoc(f, k)
  /\ artifact \in RepeatArtifacts
  /\ pc = "extract"
  /\ sigs = [tags |-> {}, text_signals |-> {}, hints |-> <<>>]
  /\ finder_out = EmptyFinderOut
  /\ counter_out = EmptyCounterOut
  /\ judge_out = NoJudgeOut
  /\ use_llm_decision = FALSE
  /\ verdict = None
  /\ decision = NoDecision
  /\ ledger = <<>>
  /\ ret = None
  /\ inbox = <<>>
  /\ committed = <<>>
  /\ IdleOthers

RepeatFrame ==
  UNCHANGED <<others, impl, settings, finder_out, counter_out, judge_out,
              use_llm_decision, decision, ledger, ret, inbox>>

\* sigs = signal_extractor.extract_signals(artifact): the artifact, the
\* pattern table and the rules are only read
ExtractSignalsCall ==
  /\ pc = "extract"
  /\ sigs' = ExtractSignals(artifact)
  /\ pc' = "evaluate"
  /\ UNCHANGED <<artifact, rules, verdict, committed>>
  /\ RepeatFrame

\* verdict = rules_engine.evaluate(sigs, text); the caller then turns to the
\* next artifact
EvaluateAgain ==
  /\ pc = "evaluate"
  /\ LET v == Evaluate(rules, RuleTags(sigs), RuleText(artifact))
     IN /\ verdict' = Some(v)
        /\ committed' = Append(committed, CallRecord(artifact, sigs, v))
  /\ IF Len(committed) + 1 < MaxCalls
     THEN pc' = "extract" /\ artifact' \in RepeatArtifacts
     ELSE pc' = "done" /\ artifact' = artifact
  /\ UNCHANGED <<rules, sigs>>
  /\ RepeatFrame

NextRepeat == ExtractSignalsCall \/ EvaluateAgain

SpecRepeat == InitRepeat /\ [][NextRepeat]_vars

(* ---------------- AnalysisRunner.run_batch_analysis ---------------- *)
\* run_analysis.py runs analyze of src/main.py in a script of its own: one
\* task on the event loop, one feature after the other.
\* What a feature's entry of inputs.yaml holds under expected_regulations:
\* nothing, a list of names, or a scalar such as 5
ExpectedKinds == {"absent", "list", "number"}

\* the entry of feature f: "title" is a key the entry may lack
FeatureConfigs(f) ==
  { [feature_id |-> f, title |-> t, description |-> <<"18">>, tags |-> <<"minors">>,
     expected_regulations |-> e] : t \in {None, Some(<<>>)}, e \in ExpectedKinds }

BatchIds == <<"F1", "F2", "F3">>

\* feature = FeatureArtifact(feature_id=feature_config["feature_id"], ...)
BuildFeature(cfg) ==
  [ feature_id |-> cfg.feature_id, title |-> Val(cfg.title),
    description |-> cfg.description, code_hints |-> <<>>, tags |-> cfg.tags ]

\* the Decisions analyze(feature) of src/main.py can build
AnalyzeDecisions(a) ==
  UNION { LET mk == ~settings.use_rules_engine
              fo == Val(Finder("main", TRUE, resp))
              co == Val(Counter("main", TRUE, ServerCounterResponse))
              jo == Val(Judge("main", TRUE, ServerJudgeResponse, mk, <<>>))
              rq == [NewRequest("analyze", <<a>>) EXCEPT !.fo = fo, !.co = co,
                                                         !.jo = jo, !.mk = mk]
          IN { NewDecision("main", a, rq, rules, sg, ServerNow) :
                 sg \in FinalSignals(ExtractSignals(a), jo) } :
          resp \in ServerFinderResponses }

\* reasoning=f"Analysis failed: {str(e)}"
FailureReasoning(e) ==
  IF e = "OSError" THEN "Analysis failed: OSError" ELSE "Analysis failed: TypeError"

\* the failure decision of the except branch of analyze_feature
FailureDecision(f, e) ==
  [ feature_id |-> f, needs_geo_compliance |-> FALSE,
    reasoning |-> FailureReasoning(e),
    regulations |-> <<>>, signals |-> <<>>, citations |-> <<>>,
    confidence |-> "0.0", matched_rules |-> <<>>, hash |-> <<>>,
    ts |-> ServerNow, policy_version |-> PolicyVersion ]

\* the entry run_batch_analysis adds to self.results
ResultEntry(d) ==
  [ session_id |-> "S", timestamp |-> ServerNow, feature_id |-> d.feature_id,
    needs_compliance |-> d.needs_geo_compliance, regulations |-> d.regulations,
    confidence |-> d.confidence, reasoning |-> d.reasoning ]

\* decisions.append(decision); self.results.append({...}); the next feature,
\* or return decisions
Collected(rn, d) ==
  [rn EXCEPT !.decisions = Append(@, d),
             !.results = Append(@, ResultEntry(d)),
             !.k = @ + 1,
             !.pc = IF rn.k < Len(features) THEN "feature" ELSE "returned"]

InitBatch ==
  /\ impl = "main"
  /\ settings = [use_rules_engine |-> FALSE, use_rag |-> TRUE]
  /\ rules = <<>>
  /\ artifact = ItemOf("F1")
  /\ pc = "script"
  /\ sigs = ExtractSignals(artifact)
  /\ finder_out = EmptyFinderOut
  /\ counter_out = EmptyCounterOut
  /\ judge_out = NoJudgeOut
  /\ use_llm_decision = FALSE
  /\ verdict = None
  /\ decision = NoDecision
  /\ ledger = <<>>
  /\ ret = None
  /\ inbox = <<>>
  /\ committed = <<>>
  /\ IdleServer /\ IdleMerkle /\ IdlePolicy /\ IdleParser /\ IdleCalls
  /\ \E n \in 0..MaxFeatures :
       features \in { fs \in [1..n -> UNION {FeatureConfigs(BatchIds[i]) : i \in 1..n}] :
                        \A i \in 1..n : fs[i].feature_id = BatchIds[i] }
  /\ runner = [pc |-> IF features = <<>> THEN "returned" ELSE "feature", k |-> 1,
               decisions |-> <<>>, results |-> <<>>, csv |-> None]

BatchFrame ==
  UNCHANGED <<impl, settings, rules, artifact, pc, sigs, finder_out, counter_out,
              judge_out, use_llm_decision, verdict, decision, ledger, ret, inbox,
              committed, requests, outputs_csv, merkle_vars, policy_vars,
              parser_vars, call_vars, features>>

\* analyze_feature up to the try: the FeatureArtifact is built from the entry,
\* and a KeyError of feature_config["title"] leaves analyze_feature and
\* run_batch_analysis
BuildFeatureArtifact ==
  /\ runner.pc = "feature"
  /\ runner' = [runner EXCEPT !.pc = IF Has(features[runner.k].title)
                                      THEN "analyze" ELSE "raised"]
  /\ UNCHANGED <<receipts_file, archive>>
  /\ BatchFrame

\* decision = await analyze(feature) returns: the receipt is written; then
\* set(expected_regulations) raises TypeError for a scalar, and the except
\* branch returns the failure decision
AnalyzeReturns ==
  /\ runner.pc = "analyze"
  /\ LET cfg == features[runner.k]
     IN \E d \in AnalyzeDecisions(BuildFeature(cfg)) :
          LET hashed == WriteReceipt(d)
          IN /\ receipts_file' = AppendText(receipts_file, ReceiptText(hashed))
             /\ runner' = Collected(runner,
                            IF cfg.expected_regulations = "number"
                            THEN FailureDecision(cfg.feature_id, "TypeError")
                            ELSE hashed)
  /\ UNCHANGED archive
  /\ BatchFrame

\* await analyze(feature) raises in write_receipt: open raises and nothing is
\* written, or f.write or the flush raises and a part of the line is written;
\* the except branch returns the failure decision
AnalyzeRaises ==
  /\ runner.pc = "analyze"
  /\ LET cfg == features[runner.k]
     IN /\ \E d \in AnalyzeDecisions(BuildFeature(cfg)) :
             \E n \in 0..Len(ReceiptLine(WriteReceipt(d))) :
               receipts_file' \in
                 { receipts_file,
                   IF n = 0 THEN Some(Get(receipts_file, <<>>))
                   ELSE AppendText(receipts_file, PartialText(WriteReceipt(d), n)) }
        /\ runner' = Collected(runner, FailureDecision(cfg.feature_id, "OSError"))
  /\ UNCHANGED archive
  /\ BatchFrame

\* export_results(decisions, summary): the CSV of the decisions and the
\* archive of the ledger
ExportResults ==
  /\ runner.pc = "returned"
  /\ runner' = [runner EXCEPT !.pc = "exported",
                              !.csv = ExportCsv(None, runner.decisions)]
  /\ archive' = Some(MakeEvidenceZip(receipts_file, outputs_csv, policy_doc))
  /\ UNCHANGED receipts_file
  /\ BatchFrame

NextBatch ==
  \/ BuildFeatureArtifact
  \/ AnalyzeReturns
  \/ AnalyzeRaises
  \/ ExportResults

SpecBatch == InitBatch /\ [][NextBatch]_vars

(* ======================= properties ======================= *)
Evaluated == pc = "evaluated"
TheVerdict == Val(verdict)
Tags == Range(artifact.tags)
Text == RuleText(artifact)

\* rule i matches the input and decides
Decides(i) == RuleMatches(rules[i], Tags, Text) /\ RuleVerdict(rules[i])

\* the k-th smallest member of a set of indices
KthOf(M, k) == CHOOSE i \in M : Cardinality({j \in M : j < i}) = k - 1

\* C1: evaluate returns at the first rule that matches and decides: whenever
\* rules a < b both match with verdict true, the Verdict is ok, names exactly
\* one rule and never b; and it is the Verdict of the first such rule, with
\* that rule's own id, regulations and reason.
C1_FirstMatchShortCircuit ==
  Evaluated =>
    LET v == TheVerdict
        D == [i \in 1..Len(rules) |-> Decides(i)]
    IN /\ \A a, b \in 1..Len(rules) :
            (a < b /\ D[a] /\ D[b]) =>
              /\ v.ok
              /\ Len(v.matched_ids) = 1
              /\ v.matched_ids # <<rules[b].id>>
       /\ \A a \in 1..Len(rules) :
            (D[a] /\ \A e \in 1..(a - 1) : ~D[e]) =>
              /\ v.ok
              /\ v.matched_ids = <<rules[a].id>>
              /\ v.regulations = RuleRegulations(rules[a])
              /\ v.reason = RuleReason(rules[a])

C1_Witness ==
  /\ Evaluated
  /\ Len(rules) = 2
  /\ Decides(1) /\ Decides(2)
  /\ TheVerdict.matched_ids = <<"A">>
  /\ TheVerdict.regulations = <<"COPPA">>

\* C2: when no rule that decides matches, the Verdict is ok = false with no
\* regulations, the fixed reason, and matched_ids listing exactly the rules
\* whose conditions matched, in document order (empty for an empty rule set).
C2_NoPositiveMatch ==
  Evaluated =>
    LET v == TheVerdict
        M == {i \in 1..Len(rules) : RuleMatches(rules[i], Tags, Text)}
    IN (\A i \in M : ~RuleVerdict(rules[i])) =>
         /\ v.ok = FALSE
         /\ v.regulations = <<>>
         /\ v.reason = "No compliance requirements detected"
         /\ Len(v.matched_ids) = Cardinality(M)
         /\ \A k \in 1..Cardinality(M) : v.matched_ids[k] = rules[KthOf(M, k)].id

C2_Witness ==
  /\ Evaluated
  /\ Len(rules) = 2
  /\ \A i \in 1..2 : RuleMatches(rules[i], Tags, Text) /\ ~RuleVerdict(rules[i])
  /\ TheVerdict.ok = FALSE
  /\ TheVerdict.matched_ids = <<"A", "B">>

\* the rule the Verdict reports as matched: with ok = false every rule was
\* consulted and matched_ids holds the matches, with ok = true matched_ids
\* holds the one rule that decided
Reported(i) == rules[i].id \in Range(TheVerdict.matched_ids)
Consulted(i) == ~TheVerdict.ok \/ Reported(i)

\* the condition kinds, each on its own
TagsKind(r) == Has(r.when_any) /\ Has(Val(r.when_any).tags)
TagsHold(r) == \E t \in Range(Val(Val(r.when_any).tags)) : t \in Tags
InnerTextKind(r) == Has(r.when_any) /\ Has(Val(r.when_any).text)
InnerTextHold(r) ==
  \E t \in Range(Val(Val(r.when_any).text)) : Contains(Lower(Text), Lower(t))
AnyTextKind(r) == Has(r.when_any_text)
AnyTextHold(r) == \E t \in Range(Val(r.when_any_text)) : Contains(Lower(Text), Lower(t))
AllTextHold(r) ==
  Has(r.when_all_text) =>
    \A t \in Range(Val(r.when_all_text)) : Contains(Lower(Text), Lower(t))
AndTextHold(r) ==
  Has(r.and_text) => \A t \in Range(Val(r.and_text)) : Contains(Lower(Text), Lower(t))

Merged == pc \in {"write_receipt", "done"}

\* C4: under the rules-authoritative policy the four merged fields of the
\* Decision are the Verdict's ok, regulations, reason and matched_ids for the
\* loaded rules and the artifact, whatever the three stages returned.
C4_RulesAuthoritative ==
  (Merged /\ settings.use_rules_engine) =>
    LET vd == EvaluateFrom(rules, 1, <<>>, Tags, Text)
    IN /\ Has(verdict) /\ Val(verdict) = vd
       /\ decision.needs_geo_compliance = vd.ok
       /\ decision.regulations = vd.regulations
       /\ decision.reasoning = vd.reason
       /\ decision.matched_rules = vd.matched_ids

\* the arbiter says "requires compliance" and the rules engine says no
C4_Witness ==
  /\ pc = "done"
  /\ settings.use_rules_engine
  /\ judge_out.confidence = "0.81"
  /\ judge_out.notes = "arbiter notes"
  /\ decision.needs_geo_compliance = FALSE
  /\ Len(decision.matched_rules) = 1

\* C5: under the model-authoritative policy the boolean is the arbiter's
\* explicit decision, false when there is none, the reasoning is the
\* arbiter's notes, matched_rules holds the one sentinel tag, and the rules
\* engine is never consulted.
C5_ModelAuthoritative ==
  (Merged /\ ~settings.use_rules_engine) =>
    /\ decision.needs_geo_compliance =
         (Has(judge_out.llm_decision) /\ Val(judge_out.llm_decision))
    /\ decision.reasoning = judge_out.notes
    /\ Len(decision.matched_rules) = 1
    /\ decision.matched_rules[1] \in {"LLM_DECISION", "SIMPLIFIED_RAG_DECISION"}
    /\ verdict = None

\* the arbiter decides no although a loaded rule decides yes for the artifact
C5_Witness ==
  /\ pc = "done"
  /\ ~settings.use_rules_engine
  /\ Has(judge_out.llm_decision) /\ ~Val(judge_out.llm_decision)
  /\ \E i \in 1..Len(rules) : Decides(i)
  /\ decision.needs_geo_compliance = FALSE

NoDuplicates(s) == \A i, j \in 1..Len(s) : s[i] = s[j] => i = j

\* C6: under the model-authoritative policy the Decision's regulations list
\* names each regulation at most once.
C6_DistinctRegulations ==
  (Merged /\ ~settings.use_rules_engine) => NoDuplicates(decision.regulations)

Judged == pc \in {"merge", "write_receipt", "done"}

\* C7: a judge call made with make_decision = false returns llm_decision =
\* None on every path, whatever decision the model's answer carried.
C7_NoDecisionUnlessAsked ==
  (Judged /\ ~use_llm_decision) => judge_out.llm_decision = None

\* a JSON answer with requires_compliance was parsed with make_decision = false
C7_Witness ==
  /\ pc = "merge"
  /\ ~use_llm_decision
  /\ judge_out.notes = "arbiter notes"
  /\ judge_out.signals = <<"ads", "ads">>
  /\ judge_out.llm_decision = None

\* C8: under either policy the Decision's signals are, as a set, the declared
\* tags, the pattern-derived topics and the arbiter's signals, each once.
C8_SignalsUnion ==
  Merged =>
    /\ Range(decision.signals) =
         Range(artifact.tags) \cup ExtractSignals(artifact).text_signals
           \cup Range(judge_out.signals)
    /\ NoDuplicates(decision.signals)

\* a tag, a derived topic and a repeated arbiter signal end up in one list
C8_Witness ==
  /\ pc = "done"
  /\ artifact.tags = <<"minors">>
  /\ "minors" \in ExtractSignals(artifact).text_signals
  /\ judge_out.signals = <<"ads", "ads">>
  /\ Len(decision.signals) = 2

\* the fields of a Decision other than hash
Content(d) ==
  <<d.feature_id, d.needs_geo_compliance, d.reasoning, d.regulations, d.signals,
    d.citations, d.confidence, d.matched_rules, d.ts, d.policy_version>>

\* C9: two Decisions get the same committed hash exactly when all their
\* fields other than hash are equal.
C9_HashContentDetermined ==
  \A i, j \in 1..Len(committed) :
    (Content(committed[i]) = Content(committed[j])) <=>
      (committed[i].hash = committed[j].hash)

\* C10: every ledger line verifies itself: its hash is "sha256-" followed by
\* the digest of the key-sorted serialization of the line's own content
\* without the hash; and the Decision's hash is empty until write_receipt.
C10_SelfVerifyingLines ==
  /\ \A n \in 1..Len(ledger) :
       LET line == LoadsLine(ledger[n])
       IN line.hash = <<"sha256-", ComputeSha256(CanonicalJson(line))>>
  /\ pc # "done" => decision.hash = <<>>
  /\ pc = "done" => decision.hash # <<>> /\ Len(ledger) = 1

\* a receipt whose confidence is not a finite number has been written
C10_Witness ==
  /\ pc = "done"
  /\ Len(ledger) = 1
  /\ decision.confidence = "Infinity"
  /\ LoadsLine(ledger[1]).confidence = "None"
  /\ LoadsLine(ledger[1]).hash = decision.hash

(* ---------------- the ledger under concurrent requests ---------------- *)
FileContent(file) == IF Has(file) THEN Val(file) ELSE <<>>

IsPrefix(a, b) == Len(a) <= Len(b) /\ \A i \in 1..Len(a) : a[i] = b[i]

\* C11: the ledger is append-only: across every step of every request
\* (analyze, bulk_analyze with its export_csv, make_evidence_zip, corpus
\* refresh, toggle) the file stays in place and its earlier content is a
\* prefix of its later content.
C11_AppendOnly ==
  [][/\ Has(receipts_file) => Has(receipts_file')
     /\ IsPrefix(FileContent(receipts_file), FileContent(receipts_file'))]_vars

\* two receipts were appended behind an earlier one, a CSV was exported and an
\* archive was built
C11_Witness ==
  /\ Len(FileLines(receipts_file)) >= 3
  /\ FileLines(receipts_file)[1] = <<ReceiptLine(PriorDecision)>>
  /\ Has(outputs_csv)
  /\ Has(archive)

(* ---------------- merkle_root against the reference reduction ---------------- *)
H(x) == ComputeSha256(x)

\* the reduction written out for the list lengths up to five
ReferenceRoot(hs) ==
  CASE Len(hs) = 0 -> <<>>
    [] Len(hs) = 1 -> hs[1]
    [] Len(hs) = 2 -> H(hs[1] \o hs[2])
    [] Len(hs) = 3 -> H(H(hs[1] \o hs[2]) \o H(hs[3] \o hs[3]))
    [] Len(hs) = 4 -> H(H(hs[1] \o hs[2]) \o H(hs[3] \o hs[4]))
    [] Len(hs) = 5 ->
         H(H(H(hs[1] \o hs[2]) \o H(hs[3] \o hs[4]))
           \o H(H(hs[5] \o hs[5]) \o H(hs[5] \o hs[5])))

\* C12: merkle_root is the reference reduction: "" for the empty list, the
\* element itself for one element, and level by level the hash of each
\* adjacent pair, a trailing unpaired element paired with itself (for three
\* hashes a, b, c the root is H(H(a+b) + H(c+c))).
C12_MerkleReference ==
  (pc = "merkled" /\ Len(hashes) <= 5) => Val(root) = ReferenceRoot(hashes)

C12_Witness ==
  /\ pc = "merkled"
  /\ hashes = << <<"a">>, <<"b">>, <<"a", "b">> >>
  /\ root = Some(H(H(<<"a", "b">>) \o H(<<"a", "b", "a", "b">>)))

(* ---------------- the archive ---------------- *)
InFlight(r) == requests[r].pc \in {"finder", "counter", "judge"}

\* the hash fields of the receipt lines of a ledger copy, in its order
HashFields(file) ==
  [i \in 1..Len(FileLines(file)) |-> LoadsLine(FileLines(file)[i][1]).hash]

\* C13: in every archive make_evidence_zip builds, also while analyses are
\* between their stage calls, merkle.txt is merkle_root of the hash fields of
\* exactly the lines of that archive's receipts.jsonl, in ledger order (and
\* the empty root when the archive has no receipts.jsonl).
C13_ArchiveMerkleMatches ==
  Has(archive) =>
    Val(archive).merkle = MerkleRoot(HashFields(Val(archive).receipts))

\* an archive of two receipts was built while an analysis was in flight, and
\* that analysis has appended its receipt since
C13_Witness ==
  /\ Has(archive)
  /\ Len(FileLines(Val(archive).receipts)) = 2
  /\ Len(FileLines(receipts_file)) = 3
  /\ Val(archive).merkle =
       H(FileLines(receipts_file)[1][1][9][2] \o FileLines(receipts_file)[2][1][9][2])

(* ---------------- appends of concurrent analyses ---------------- *)
\* the Decisions the analyses of the requests 1..n have returned so far
RECURSIVE Returned(_)
Returned(n) == IF n = 0 THEN <<>> ELSE Returned(n - 1) \o requests[n].decisions

\* the lines that were in the ledger when the server started
PriorLines(lines) ==
  Cardinality({i \in 1..Len(lines) :
                 \E j \in 1..Len(lines[i]) : LoadsLine(lines[i][j]).feature_id = "F0"})

Occurrences(x, seq) == Cardinality({i \in 1..Len(seq) : seq[i] = x})

\* C14: appends are serialized: with analyses of several requests interleaved,
\* the ledger ends in a newline, every line holds exactly one receipt, and the
\* lines added since the start are exactly the receipts of the analyses that
\* have returned, one line each.
C14_AppendsSerialized ==
  LET content == FileContent(receipts_file)
      lines == FileLines(receipts_file)
      done == Returned(Len(requests))
  IN /\ content # <<>> => content[Len(content)] = Newline
     /\ \A i \in 1..Len(lines) : Len(lines[i]) = 1
     /\ Len(lines) = PriorLines(lines) + Len(done)
     /\ \A k \in 1..Len(done) :
          Occurrences(<<ReceiptLine(done[k])>>, lines) = Occurrences(done[k], done)

\* an analysis of one request has returned while a bulk request, one receipt
\* written, is waiting on a stage call of its second item
C14_Witness ==
  /\ Len(requests) >= 2
  /\ requests[1].op = "analyze" /\ Len(requests[1].decisions) = 1
  /\ requests[2].op = "bulk_analyze" /\ requests[2].k = 2 /\ InFlight(2)
  /\ Len(requests[2].decisions) = 1
  /\ Len(FileLines(receipts_file)) = 3

(* ---------------- one receipt per analysis ---------------- *)
\* C15: a successful analyze call commits exactly one receipt: nothing is
\* returned before the line is appended, the call appends exactly one line,
\* and the Decision it returns equals the appended line field for field,
\* hash included.
C15_OneReceiptPerAnalysis ==
  /\ Has(ret) => pc = "done"
  /\ pc # "done" => ledger = <<>>
  /\ pc = "done" =>
       /\ Has(ret)
       /\ Len(ledger) = 1
       /\ LoadsLine(ledger[1]) = Val(ret)

\* the same with the confidence compared as orjson writes it
C15_UpToConfidenceText ==
  /\ Has(ret) => pc = "done"
  /\ pc # "done" => ledger = <<>>
  /\ pc = "done" =>
       /\ Has(ret)
       /\ Len(ledger) = 1
       /\ LoadsLine(ledger[1]) =
            [Val(ret) EXCEPT !.confidence = LoadsFloat(OrjsonFloat(Val(ret).confidence))]

(* ---------------- loading the policy ---------------- *)
\* a policy document that is a mapping with a list under 'rules'
WellFormedPolicy(doc) ==
  doc.kind = "mapping" /\ Has(doc.rules_key) /\ Val(doc.rules_key).type = "list"

\* C16: loading the policy never raises: for a document that is missing,
\* unparseable, empty or not a mapping with a 'rules' list, the engine holds
\* the empty rule set and evaluate returns ok = false.
C16_PolicyLoadNeverRaises ==
  /\ pc # "load_raised"
  /\ pc # "evaluate_raised"
  /\ (~WellFormedPolicy(policy_doc) /\ pc \in {"loaded", "evaluated"}) =>
       rules_type = "list" /\ rules = <<>>
  /\ (~WellFormedPolicy(policy_doc) /\ pc = "evaluated") => ~Val(verdict).ok

(* ---------------- the proposer parser ---------------- *)
Parsed == pc = "parsed"
TheResult == Val(parse_result)

NoHeader(lines) == \A i \in 1..Len(lines) : HeaderOf(lines[i]) = ""

\* C17: a response without a recognizable section header parses, without an
\* exception, to empty signals, claims and citations lists with the raw text
\* kept under the fallback field.
C17_NoHeaderGivesEmptyWithRaw ==
  (Parsed /\ NoHeader(raw_response)) =>
     /\ TheResult.signals = Some(<<>>)
     /\ TheResult.claims = Some(<<>>)
     /\ TheResult.citations = Some(<<>>)
     /\ TheResult.raw_response = Some(raw_response)

\* the section of line i: the header that most recently precedes it
SectionAt(lines, i) ==
  LET hs == {j \in 1..(i - 1) : HeaderOf(lines[j]) # ""}
  IN IF hs = {} THEN "" ELSE HeaderOf(lines[CHOOSE j \in hs : \A k \in hs : k <= j])

\* a non-header line that is accepted
Accepted(line) ==
  line # "" /\ HeaderOf(line) = "" /\ (StartsWithBullet(line) \/ LineLen(line) > 2)

\* the bodies of the accepted lines of one section, in order
RECURSIVE BodiesFrom(_, _, _)
BodiesFrom(lines, i, section) ==
  IF i > Len(lines) THEN <<>>
  ELSE (IF Accepted(lines[i]) /\ SectionAt(lines, i) = section
        THEN <<LStripBullets(lines[i])>> ELSE <<>>)
       \o BodiesFrom(lines, i + 1, section)

\* C18: an accepted non-header line goes to the list of the section whose
\* header most recently preceded it: to claims after CLAIMS:, to citations
\* after CITATIONS:, and to signals only after SIGNALS:.
C18_LinesGoToTheirSection ==
  (Parsed /\ ~LoadsAsJson(raw_response)) =>
     /\ Val(TheResult.signals) = BodiesFrom(raw_response, 1, "signals")
     /\ \A i \in 1..Len(raw_response) :
          (Accepted(raw_response[i]) /\ SectionAt(raw_response, i) = "citations") =>
            \E k \in 1..Len(Val(TheResult.citations)) :
               Val(TheResult.citations)[k] = LStripBullets(raw_response[i])
     /\ \A i \in 1..Len(raw_response) :
          (Accepted(raw_response[i]) /\ SectionAt(raw_response, i) = "claims"
             /\ HasColon(raw_response[i])) =>
            \E k \in 1..Len(Val(TheResult.claims)) :
               Val(TheResult.claims)[k] = ClaimOf(raw_response[i])

(* ---------------- time limits and failing calls of the stages ---------------- *)
StageIndex(s) == CASE s = "finder" -> 1 [] s = "counter" -> 2 [] s = "judge" -> 3

\* the stage has handed its result back to analyze
StageReturned(s) ==
  IF pc = "raised"
  THEN \E t \in Stages : StageIndex(t) > StageIndex(s) /\ calls[t].via # "none"
  ELSE \/ pc \in {"merge", "write_receipt", "done"}
       \/ pc \in Stages /\ StageIndex(pc) > StageIndex(s)

\* the result a stage falls back to when it has no answer of the model
Degraded(s) ==
  CASE s = "finder" -> finder_out = EmptyFinderOut
    [] s = "counter" -> counter_out = EmptyCounterOut
    [] s = "judge" ->
         /\ Range(judge_out.signals) =
              Range(finder_out.signals \o counter_out.missing_signals)
         /\ judge_out.confidence \in {"0.0", "0.5"}
         /\ judge_out.notes \in {"Analysis completed", "LLM analysis failed",
                                 "Judge analysis timed out - please try again"}
         /\ judge_out.llm_decision \in {None, Some(FALSE)}

\* analyze has written the receipt of its Decision and returned it
CommittedDecision ==
  /\ ret = Some(decision)
  /\ ledger = <<ReceiptLine(decision)>>

\* C19: in the backend a time limit hit by the call of a stage never aborts
\* the analysis: call_openai hands back the sentinel text instead of raising,
\* the stage returns its degraded result, the analysis is only ever aborted
\* by a call that failed with an error, and an analysis that ends has written
\* and returned its Decision
C19_TimeoutNeverAborts ==
  impl = "backend" =>
    /\ \A s \in Stages :
         /\ (calls[s].via = "call_openai" /\ calls[s].last = "timeout") =>
               /\ calls[s].outcome = "sentinel"
               /\ calls[s].content = Some(SentinelResponse(s))
         /\ (calls[s].last = "timeout" /\ StageReturned(s)) => Degraded(s)
    /\ pc = "raised" =>
         \E t \in Stages : calls[t].outcome = "raised" /\ calls[t].last = "error"
    /\ pc = "done" => CommittedDecision

\* C19, its case: all three calls ran into the time limit in direct mode and
\* the analysis has committed a Decision
C19_Witness ==
  /\ impl = "backend"
  /\ pc = "done"
  /\ \A s \in Stages : calls[s].outcome = "sentinel"
  /\ CommittedDecision
  /\ decision.confidence = "0.5"

\* C20: a call is attempted at most three times; when all attempts failed the
\* stage hands back its degraded result and the analysis is not aborted
C20_FailedCallsDegrade ==
  /\ \A s \in Stages :
       /\ calls[s].attempts <= StopAfterAttempt
       /\ calls[s].outcome = "raised" =>
             /\ calls[s].attempts = StopAfterAttempt
             /\ StageReturned(s) => Degraded(s)
  /\ pc # "raised"
  /\ pc = "done" => CommittedDecision

\* the same for src/main.py alone, where every stage calls inside its try
C20_InMain == impl = "main" => C20_FailedCallsDegrade

\* the same for the attempts alone, in both implementations
C20_AtMostThreeAttempts ==
  \A s \in Stages :
    /\ calls[s].attempts <= StopAfterAttempt
    /\ calls[s].outcome = "raised" => calls[s].attempts = StopAfterAttempt

(* ---------------- a failing item of a batch ---------------- *)
\* the feature ids of a list of items or of Decisions
FeatureIds(xs) == [i \in 1..Len(xs) |-> xs[i].feature_id]

\* s is t with some elements left out, the order kept (both of length <= 2 here,
\* the general case by induction on t)
RECURSIVE IsSubsequence(_, _)
IsSubsequence(s, t) ==
  IF s = <<>> THEN TRUE
  ELSE IF t = <<>> THEN FALSE
  ELSE IF Head(s) = Head(t) THEN IsSubsequence(Tail(s), Tail(t))
  ELSE IsSubsequence(s, Tail(t))

BatchDone(r) ==
  /\ requests[r].op = "bulk_analyze"
  /\ requests[r].pc = "done"
  /\ requests[r].items # <<>>

\* every item of the batch was run, the Decisions of the items that did not
\* fail are kept in input order, and each of them has its line in the ledger
ItemsIsolated(r) ==
  LET rq == requests[r]
  IN /\ rq.k = Len(rq.items)
     /\ rq.status = 200
     /\ IsSubsequence(FeatureIds(rq.decisions), FeatureIds(rq.items))
     /\ \A i \in 1..Len(rq.decisions) :
          \E n \in 1..Len(FileLines(receipts_file)) :
             FileLines(receipts_file)[n] = <<ReceiptLine(rq.decisions[i])>>

\* C21: a batch with a failing item still runs and commits every other item in
\* input order, and its response reports the successes and the number of
\* items that failed
C21_BatchReportsFailures ==
  \A r \in 1..Len(requests) :
    BatchDone(r) =>
      /\ ItemsIsolated(r)
      /\ Has(requests[r].body)
      /\ Val(requests[r].body).count = Len(requests[r].decisions)
      /\ "failed" \in DOMAIN Val(requests[r].body)
      /\ Val(requests[r].body).failed =
            Len(requests[r].items) - Len(requests[r].decisions)

\* the same without the number of failed items in the response
C21_BatchIsolatesFailures ==
  \A r \in 1..Len(requests) :
    BatchDone(r) =>
      /\ ItemsIsolated(r)
      /\ Val(requests[r].body) = BulkResponse(requests[r].decisions)

\* a batch whose first item failed and whose second item was committed
C21_FailedItemReached ==
  \E r \in 1..Len(requests) :
    /\ BatchDone(r)
    /\ FeatureIds(requests[r].decisions) = <<"F2">>

(* ---------------- a receipt that cannot be appended ---------------- *)
\* the step in which the append of the receipt fails
AppendFails == pc = "write_receipt" /\ pc' = "raised"

\* the fields of a Decision
DecisionFields == DOMAIN NoDecision

\* C22: when appending the receipt fails, analyze still returns the computed
\* Decision, marked with a flag that the receipt was not committed, and the
\* ledger file is left as it was
C22_DecisionReturnedWithFlag ==
  [][AppendFails =>
       /\ Has(ret')
       /\ \A f \in DecisionFields \ {"hash"} : Val(ret')[f] = decision[f]
       /\ DOMAIN Val(ret') # DecisionFields
       /\ receipts_file' = receipts_file]_vars

\* what the code does instead: nothing is returned, the request ends with
\* status 500 and no body
C22_FailureIsFatal ==
  (pc = "raised" /\ requests[1].pc = "done") =>
     /\ ret = None
     /\ requests[1].status = 500
     /\ requests[1].body = None

\* a failed append leaves the complete lines of the ledger as they were
C22_CompleteLinesKept ==
  [][AppendFails =>
       \A n \in 1..Len(FileLines(receipts_file)) :
          /\ n <= Len(FileLines(receipts_file'))
          /\ FileLines(receipts_file')[n] = FileLines(receipts_file)[n]]_vars

\* a failed append that left a torn line behind
C22_TornLineReached ==
  /\ pc = "raised"
  /\ Len(FileLines(receipts_file)) = 2
  /\ Len(FileLines(receipts_file)[2][1]) = 3

(* ---------------- state shared by the requests ---------------- *)
\* C23: the analyses share no mutable state but the ledger: while an analysis
\* is between its start and its return, no step of another request writes the
\* settings or the rules it reads
C23_NoSharedMutableState ==
  [][(\E r \in 1..Len(requests) : InFlight(r)) =>
        /\ settings' = settings
        /\ rules' = rules]_vars

\* the settings are written by toggle_rag alone, never by an analysis
C23_OnlyToggleWrites ==
  [][settings' # settings =>
        \E r \in 1..Len(requests) :
           /\ requests[r].op = "toggle_rag"
           /\ requests[r].pc = "start"
           /\ requests'[r].pc = "done"]_vars

\* an analysis between two stages whose flag use_rag was flipped under it
C23_FlippedInFlight ==
  \E r \in 1..Len(requests) :
    /\ InFlight(r)
    /\ requests[r].modes # <<>>
    /\ requests[r].modes[1] # settings.use_rag

(* ---------------- toggle_rag and the analyses in flight ---------------- *)
\* C27: an analysis runs its stages and its store step in the mode that was
\* in effect when it started, whatever toggle_rag does meanwhile
C27_OneModePerAnalysis ==
  \A r \in 1..Len(requests) :
    \A i \in 1..Len(requests[r].modes) :
      requests[r].modes[i] = requests[r].modes[1]

\* an analysis that started in RAG mode never yields to another request, so
\* it does run in one mode
C27_RagStartStaysRag ==
  \A r \in 1..Len(requests) :
    (requests[r].modes # <<>> /\ requests[r].modes[1]) =>
      \A i \in 1..Len(requests[r].modes) : requests[r].modes[i]

\* an analysis that started in direct mode and ran its store step in RAG mode
C27_MixedModesReached ==
  \E r \in 1..Len(requests) :
    /\ requests[r].pc = "done"
    /\ requests[r].modes = <<FALSE, TRUE, TRUE, TRUE>>

(* ---------------- the confidence of a committed Decision ---------------- *)
\* the decimal texts of the model that denote a number within [0,1]
UnitInterval == {"0.0", "0.3", "0.5", "0.6", "0.7", "0.8", "0.81", "0.9", "1.0"}

\* C24: every Decision committed to the ledger has a confidence within [0,1],
\* whatever the arbiter's call returned
C24_ConfidenceInUnitInterval ==
  (pc = "done" /\ ledger = <<ReceiptLine(decision)>>) =>
     decision.confidence \in UnitInterval

\* the confidence of the Decision is the arbiter's, copied as it came
C24_ConfidenceIsTheArbiters ==
  pc = "done" => decision.confidence = judge_out.confidence

\* in the backend's direct mode the arbiter's stage always falls back to 0.5
C24_DirectArbiterFallsBack ==
  (impl = "backend" /\ calls["judge"].via = "call_openai" /\ pc = "done") =>
     decision.confidence = "0.5"

\* a committed Decision with the confidence 85
C24_OutOfRangeReached ==
  /\ pc = "done"
  /\ ledger = <<ReceiptLine(decision)>>
  /\ decision.confidence = "85"

DirectArbiterDecided ==
  /\ impl = "backend"
  /\ pc = "done"
  /\ use_llm_decision
  /\ calls["judge"].via = "call_openai"
  /\ calls["judge"].outcome = "content"
  /\ Val(calls["judge"].content).kind = "text"
  /\ Has(Val(calls["judge"].content).requires_compliance)

\* C26: in direct mode under model-authoritative policy the committed
\* Decision follows the arbiter's DECISION line, YES giving true and NO giving
\* false, with the confidence and the REASON text parsed from the response
C26_DirectDecisionFollowsArbiter ==
  DirectArbiterDecided =>
    LET answer == Val(calls["judge"].content)
    IN /\ decision.needs_geo_compliance = Val(answer.requires_compliance)
       /\ decision.confidence = Val(answer.confidence)
       /\ decision.reasoning = Val(answer.notes)

\* what the code commits instead: the fallback of judge, whatever the answer
C26_DirectDecisionIsFallback ==
  DirectArbiterDecided =>
    /\ decision.needs_geo_compliance = FALSE
    /\ decision.confidence = "0.5"
    /\ decision.reasoning = "Analysis completed"

\* the arbiter answered YES and the committed Decision says no
C26_YesIgnoredReached ==
  /\ DirectArbiterDecided
  /\ Val(calls["judge"].content).requires_compliance = Some(TRUE)
  /\ decision.needs_geo_compliance = FALSE

(* ---------------- what the rule conditions are tested against ---------------- *)
\* the rule lists tags only, or text terms only
TagRule(rule) == Has(rule.when_any) /\ Has(Val(rule.when_any).tags)
                 /\ ~Has(Val(rule.when_any).text) /\ ~Has(rule.when_any_text)
TextRule(rule) == ~Has(rule.when_any) /\ Has(rule.when_any_text)

\* the Verdict names the rule
Named(v, rule) == \E k \in 1..Len(v.matched_ids) : v.matched_ids[k] = rule.id

\* a term of the list is spelled in the title or the description
Spelled(a, terms) ==
  \E i \in 1..Len(terms) : Contains(Lower(a.title \o a.description), Lower(terms[i]))

\* C28: a rule's any-of-tags condition is met by the declared tags of the
\* artifact only, never by a topic the extractor derived from the text, and a
\* rule's text condition is met by title and description only, never by the
\* code hints
C28_RulesSeeDeclaredTagsOnly ==
  \A c \in 1..Len(committed) : \A i \in 1..Len(rules) :
    LET a == committed[c].artifact
        v == committed[c].verdict
    IN /\ TagRule(rules[i]) =>
            (Named(v, rules[i]) <=>
               \E t \in Range(a.tags) : t \in Range(Val(Val(rules[i].when_any).tags)))
       /\ TextRule(rules[i]) =>
            (Named(v, rules[i]) <=> Spelled(a, Val(rules[i].when_any_text)))

\* C28, its case: the text spells 'under 18', so the extractor derived
\* the topic minors, the artifact declares no tag, and the rule on the tag
\* minors did not match; and a code hint spells a term of a text rule that did
\* not match
C28_Witness ==
  /\ Len(committed) >= 2
  /\ Len(rules) = 1
  /\ \E c \in 1..Len(committed) :
       /\ "minors" \in committed[c].sigs.text_signals
       /\ committed[c].artifact.tags = <<>>
       /\ (TagRule(rules[1]) => "minors" \in Range(Val(Val(rules[1].when_any).tags)))
       /\ committed[c].artifact.code_hints = <<"advertising">>
       /\ "ads" \in committed[c].sigs.text_signals
       /\ (TextRule(rules[1]) => Val(rules[1].when_any_text)[1] = <<"ADVERTISING">>)
       /\ ~Named(committed[c].verdict, rules[1])

(* ---------------- merkle_root and a repeated last hash ---------------- *)
LastRepeated(hs) == Append(hs, hs[Len(hs)])

\* C29: for every list of odd length of at least three hashes, merkle_root
\* returns the same root for the list and for the list with its last hash
\* appended once more; for a single hash h the root is h itself, which is not
\* the root of [h, h].
C29_LastRepeatedSameRoot ==
  pc = "merkled" =>
    /\ (Len(hashes) >= 3 /\ Len(hashes) % 2 = 1)
         => Val(root) = MerkleRoot(LastRepeated(hashes))
    /\ Len(hashes) = 1
         => /\ Val(root) = hashes[1]
            /\ Val(root) # MerkleRoot(LastRepeated(hashes))

C29_Witness ==
  /\ pc = "merkled"
  /\ hashes = << <<"b">>, <<"a">>, <<"a", "b">> >>
  /\ root = Some(MerkleRoot(<< <<"b">>, <<"a">>, <<"a", "b">>, <<"a", "b">> >>))
  /\ root # Some(MerkleRoot(<< <<"b">>, <<"a">> >>))

(* ---------------- the batch of an AnalysisRunner ---------------- *)
\* run_batch_analysis has ended: it returned, or an exception left it
BatchEnded == runner.pc \in {"returned", "exported", "raised"}

\* the ledger holds a line a reader can parse that names feature f
HasReceipt(f) ==
  \E n \in 1..Len(FileLines(receipts_file)) :
    LET l == FileLines(receipts_file)[n]
    IN ParsesAsJson(l) /\ LoadsLine(l[1]).feature_id = f

IsPlaceholder(d) ==
  /\ ~d.needs_geo_compliance
  /\ d.confidence = "0.0"
  /\ d.regulations = <<>> /\ d.signals = <<>> /\ d.matched_rules = <<>>
  /\ d.hash = <<>>

OneDecisionPerFeature ==
  /\ runner.pc # "raised"
  /\ FeatureIds(runner.decisions) = FeatureIds(features)

\* C30: run_batch_analysis returns exactly one Decision per input feature, in
\* input order, whatever fails; the Decision of a feature that failed is the
\* placeholder (no compliance needed, confidence 0.0, no regulations, signals
\* or matched rules, empty hash) and the ledger holds no line for that feature
C30_PlaceholderForWhateverFails ==
  BatchEnded =>
    /\ OneDecisionPerFeature
    /\ \A i \in 1..Len(runner.decisions) :
         IsPlaceholder(runner.decisions[i])
           => ~HasReceipt(runner.decisions[i].feature_id)

\* what the code does: when every entry has its title, the batch returns one
\* Decision per feature in input order, each the Decision analyze returned
\* with its hash or the placeholder
C30_BuiltFeaturesAllAnswered ==
  (BatchEnded /\ \A i \in 1..Len(features) : Has(features[i].title)) =>
    /\ OneDecisionPerFeature
    /\ \A i \in 1..Len(runner.decisions) :
         \/ IsPlaceholder(runner.decisions[i])
         \/ runner.decisions[i].hash = ReceiptHash(runner.decisions[i])

\* a failure of write_receipt that wrote nothing leaves a placeholder without
\* a line, and the exported CSV has its row
C30_PlaceholderExported ==
  /\ runner.pc = "exported"
  /\ Len(features) = 2
  /\ IsPlaceholder(runner.decisions[1]) /\ ~HasReceipt("F1")
  /\ ~IsPlaceholder(runner.decisions[2]) /\ HasReceipt("F2")
  /\ Len(Val(runner.csv)) = 2

\* an entry without title: the batch ends with a KeyError and returns nothing
C30_BatchRaisedReached ==
  /\ runner.pc = "raised"
  /\ Len(features) = 2
  /\ Len(runner.decisions) = 1

\* a scalar under expected_regulations: the receipt of the feature is in the
\* ledger and the batch returns the placeholder for it
C30_PlaceholderWithReceiptReached ==
  /\ runner.pc = "returned"
  /\ features # <<>>
  /\ Has(features[1].title)
  /\ IsPlaceholder(runner.decisions[1])
  /\ HasReceipt("F1")
  /\ runner.decisions[1].reasoning = "Analysis failed: TypeError"

====
